---- MODULE Spec2Model ----
(***************************************************************************)
(* Pgvpd / Multigres per-connection handler (class Connection) together    *)
(* with the wire-protocol primitives it uses.                              *)
(*                                                                         *)
(* One client connection is modelled end to end: the proxy's Connection    *)
(* object, the client peer that writes to the client socket, and the       *)
(* PostgreSQL server behind the upstream socket.  Byte streams are kept at *)
(* the granularity of whole protocol frames; user names, context values    *)
(* and SQL text are sequences of characters / tokens so that the parsing   *)
(* and the query construction are computed the way the code computes them. *)
(***************************************************************************)
EXTENDS Integers, Sequences, FiniteSets, TLC

\* ───────────────────────── bounds of the model ───────────────────────────
\* longest user name enumerated exhaustively
MaxUserLen == 2
\* typed messages the client may send after its startup-phase frames
MaxClientMsgs == 2
\* startup-phase frames (SSLRequest, StartupMessage, ...) the client may send
MaxStartupFrames == 2
\* largest number of configured context variables
MaxVars == 2
\* client connections (handler tasks) served in pool mode
MaxTasks == 2
\* largest configured tenant_max_connections
MaxTenantLimit == 1
\* largest configured pool_size
MaxPoolSize == 1
\* last instant of the clock
MaxTime == 2
\* admission attempts made at the tenant registry
MaxAttempts == 3
\* largest configured tenant_rate_limit
MaxRate == 1
\* client connections that pass through RESOLVING, one after the other
MaxSessions == 2
\* key/value pairs in a startup frame given to the codec
MaxParams == 2
\* iterations of a frame loop followed
MaxFrames == 3

\* ───────────────────────── program constants ─────────────────────────────
PROTOCOL_VERSION_30 == 196608
SSL_REQUEST_CODE == 80877103
CANCEL_REQUEST_CODE == 80877102
GSS_REQUEST_CODE == SSL_REQUEST_CODE + 1

\* config.tenantSeparator and config.valueSeparator (DEFAULTS)
tenantSeparator == "."
valueSeparator == ":"

\* Character classes.  "a" stands for any character of [A-Za-z0-9_].
AlnumChars == {"a"}
\* characters accepted by escapeLiteral: ^[a-zA-Z0-9_\-\.]+$
LiteralChars == AlnumChars \cup {"-", "."}
\* characters accepted by quoteIdent: ^[a-zA-Z0-9_]+$
IdentChars == AlnumChars
\* the characters user names are enumerated over
Alphabet == {"a", "."}

\* config.superuserBypass: one bypass user name, "aa"
superuserBypass == << <<"a", "a">> >>

\* the names config.contextVariables may hold, in configuration order
VarNames == <<"app.v1", "app.v2", "app.v3">>

\* ───────────────────────── sequence helpers ──────────────────────────────
SeqsUpTo(S, n) == UNION {[1..k -> S] : k \in 0..n}

\* Array.prototype.includes
Includes(list, x) == \E i \in 1..Len(list) : list[i] = x

\* String.prototype.lastIndexOf, the split point indexOf must not be taken for
IndexOf_last(s, ch) ==
  IF \E i \in 1..Len(s) : s[i] = ch
  THEN (CHOOSE i \in 1..Len(s) : s[i] = ch /\ \A j \in (i+1)..Len(s) : s[j] # ch) - 1
  ELSE -1

\* String.prototype.indexOf for a one-character needle: 0-based index of
\* the first occurrence, -1 when there is none
IndexOf(s, ch) ==
  IF \E i \in 1..Len(s) : s[i] = ch
  THEN (CHOOSE i \in 1..Len(s) : s[i] = ch /\ \A j \in 1..(i-1) : s[j] # ch) - 1
  ELSE -1

\* String.prototype.slice(from, to) with 0-based, end-exclusive indices
Slice(s, from, to) == SubSeq(s, from + 1, to)

\* String.prototype.split for a one-character separator: every piece,
\* empty ones included
RECURSIVE Split(_, _)
Split(s, ch) ==
  LET i == IndexOf(s, ch) IN
  IF i = -1 THEN <<s>>
  ELSE <<Slice(s, 0, i)>> \o Split(Slice(s, i + 1, Len(s)), ch)

RECURSIVE Flatten(_)
Flatten(ss) == IF ss = <<>> THEN <<>> ELSE Head(ss) \o Flatten(Tail(ss))

\* ───────────────────────── wire protocol primitives ─────────────────────
\* A startup-phase frame (no type byte): the Int32 after the length and the
\* key/value pairs that follow it, in wire order.
StartupFrame(code, params) == [kind |-> "startup", code |-> code, params |-> params]

\* A typed frontend message; `by` records who originated the bytes and is
\* not visible to the proxy or the server.
PasswordMessage == [kind |-> "p", sql |-> <<>>, by |-> "client"]
ClientQuery == [kind |-> "Q", sql |-> <<"SELECT">>, by |-> "client"]

\* Map.get on a key the map does not hold
Undefined == <<"undefined">>

\* Map<string,string> as the sequence of its entries in insertion order
MapHas(m, k) == \E i \in 1..Len(m) : m[i][1] = k
MapGet(m, k) ==
  IF MapHas(m, k) THEN m[CHOOSE i \in 1..Len(m) : m[i][1] = k][2] ELSE Undefined
MapSet(m, k, v) ==
  IF MapHas(m, k)
  THEN [i \in 1..Len(m) |-> IF m[i][1] = k THEN <<k, v>> ELSE m[i]]
  ELSE Append(m, <<k, v>>)

\* parseStartupMessage: the pairs after the 8-byte header, entered into a
\* Map one after the other; a pair with an empty key is skipped
RECURSIVE ParsePairs(_, _)
ParsePairs(pairs, m) ==
  IF pairs = <<>> THEN m
  ELSE ParsePairs(Tail(pairs),
                  IF Head(pairs)[1] # "" THEN MapSet(m, Head(pairs)[1], Head(pairs)[2]) ELSE m)
parseStartupMessage(buf) == [params |-> ParsePairs(buf.params, <<>>)]

\* buildStartupMessage: protocol version 3.0 and the map's entries in order
buildStartupMessage(params) == StartupFrame(PROTOCOL_VERSION_30, params)

\* buildQueryMessage: 'Q', length, the SQL text, a terminating null
buildQueryMessage(sql) == [kind |-> "Q", sql |-> sql, by |-> "proxy"]

\* buildErrorResponse: 'E' with fields S, V, C, M (and D when given)
buildErrorResponse(severity, sqlstate, message) ==
  [t |-> "E", re |-> "proxy", S |-> severity, V |-> severity, C |-> sqlstate, M |-> message]

\* SSL_DENY: the single byte 'N'
SSL_DENY == [t |-> "SSL_DENY", re |-> "proxy"]

isSSLRequest(buf) == buf.code = SSL_REQUEST_CODE
isCancelRequest(buf) == buf.code = CANCEL_REQUEST_CODE

\* Backend frames.  `re` names the request the server emitted the frame in
\* reply to ("startup", "injection", "client"); the proxy only reads `t`
\* (and `auth` of an 'R' frame).
BackendFrame(t, re) == [t |-> t, re |-> re]
AuthFrame(sub) == [t |-> "R", re |-> "startup", auth |-> sub]
isAuthOk(msg) == msg.t = "R" /\ msg.auth = 0
isReadyForQuery(msg) == msg.t = "Z"
isErrorResponse(msg) == msg.t = "E"
isParameterStatus(msg) == msg.t = "S"

\* ───────────────────────── SQL escaping ──────────────────────────────────
\* String.prototype.replace(/q/g, qq)
RECURSIVE DoubleChar(_, _)
DoubleChar(value, q) ==
  IF value = <<>> THEN <<>>
  ELSE (IF Head(value) = q THEN <<q, q>> ELSE <<Head(value)>>) \o DoubleChar(Tail(value), q)

\* escapeLiteral without its regular-expression test
LiteralOk_untested(value) == TRUE
\* the regular-expression tests of escapeLiteral and quoteIdent
LiteralOk(value) == Len(value) > 0 /\ \A i \in 1..Len(value) : value[i] \in LiteralChars
IdentOk(value) == Len(value) > 0 /\ \A i \in 1..Len(value) : value[i] \in IdentChars

\* escapeLiteral / quoteIdent, defined where the test passes (they throw
\* where it fails)
escapeLiteral(value) == <<"'">> \o DoubleChar(value, "'") \o <<"'">>
quoteIdent(value) == <<"\"">> \o DoubleChar(value, "\"") \o <<"\"">>

\* setClauses.join("; ")
RECURSIVE Join(_, _)
Join(parts, sep) ==
  IF parts = <<>> THEN <<>>
  ELSE IF Len(parts) = 1 THEN parts[1]
  ELSE parts[1] \o sep \o Join(Tail(parts), sep)

\* the same statements with SET ROLE placed first
InjectionSql_roleFirst(names, values, role) ==
  LET setClauses == [i \in 1..Len(names) |->
                       <<"SET", " ", names[i], " ", "=", " ">> \o escapeLiteral(values[i])]
      all == <<(<<"SET", " ", "ROLE", " ">> \o quoteIdent(role))>> \o setClauses
  IN Join(all, <<";", " ">>) \o <<";">>

\* the SQL text built by injectTenantContext
InjectionSql(names, values, role) ==
  LET setClauses == [i \in 1..Len(names) |->
                       <<"SET", " ", names[i], " ", "=", " ">> \o escapeLiteral(values[i])]
      all == Append(setClauses, <<"SET", " ", "ROLE", " ">> \o quoteIdent(role))
  IN Join(all, <<";", " ">>) \o <<";">>

\* ───────────────────────── state ─────────────────────────────────────────
VARIABLES
  contextVariables,       \* config.contextVariables of this run
  state,                  \* Connection.state
  clientFramer,           \* Connection.clientFramer.buffer
  serverFramer,           \* Connection.serverFramer.buffer
  upstream,               \* Connection.upstream: "null" or "socket"
  contextValues,          \* Connection.contextValues
  actualUser,             \* Connection.actualUser
  isBypass,               \* Connection.isBypass
  bufferedReadyForQuery,  \* Connection.bufferedReadyForQuery
  client,                 \* the client socket: "open", "ended", "destroyed"
  upSock,                 \* the upstream socket: "none", "connecting", "open", "destroyed"
  startupMsg,             \* the frame captured by the connect callback
  startupSeen,            \* the StartupMessage handleStartupData parsed (its `msg`)
  toClient,               \* everything written to the client socket, in order
  toUpstream,             \* everything written to the upstream socket, in order
  opens,                  \* number of net.createConnection calls
  c2p,                    \* client bytes in flight to the proxy
  sentStartups,           \* startup-phase frames the client has sent
  sentMsgs,               \* typed messages the client has sent
  s2p,                    \* server frames in flight to the proxy
  srvPhase,               \* the server session: "startup", "auth", "idle", "closed"
  srvPos,                 \* how much of toUpstream the server has read
  received                \* every frame the proxy has read from the upstream socket

\* The state the handler tasks share in pool mode: the tenant registry and
\* the session connection pool (one bucket), with each task's own position.
VARIABLES
  tenantMax,              \* config tenant_max_connections
  poolSize,               \* config pool_size
  active,                 \* registry: active-connection count per tenant
  live,                   \* bucket: live-count
  idle,                   \* bucket: idle queue of [id, last_used]
  reaped,                 \* connections the reaper removed and has yet to close
  upConn,                 \* per pooled upstream connection: "absent", "open", "closed",
                          \* and the tenant context its session carries
  now,                    \* the clock
  pc,                     \* per task: where its handler stands
  tenantOf,               \* per task: the tenant of its user name
  held,                   \* per task: the pooled connection it holds, 0 for none
  result,                 \* per task: how its admission or checkout was refused, if so
  releases                \* per task: how often its TenantGuard was released

poolVars == <<tenantMax, poolSize, active, live, idle, reaped, upConn, now,
              pc, tenantOf, held, result, releases>>

\* The tenant registry's rate-limit windows, with the record of the
\* admission attempts made so far.
VARIABLES
  rateLimit,              \* config tenant_rate_limit, 0 when not configured
  window,                 \* registry: per tenant [start, count], start -1 before first use
  attempts,               \* admission attempts made so far
  admitTimes,             \* per tenant: the instants of its admitted attempts
  verdict                 \* the outcome of the latest attempt

rateVars == <<rateLimit, window, attempts, admitTimes, verdict>>

\* The resolver engine: its configuration, the order it computed at startup,
\* the process-wide cache, and each connection's pass through RESOLVING.
VARIABLES
  resolvers,              \* config: per resolver [depends_on, param, required, cache_ttl]
  engine,                 \* "unloaded", "ready", or "aborted" at startup
  order,                  \* the execution order computed at startup
  cache,                  \* resolver cache: entries [name, params, row, exp], oldest first
  sess,                   \* the connection in RESOLVING: [pc, i, ctx, err, kind]
  started                 \* connections that have entered RESOLVING so far

resolverVars == <<resolvers, engine, order, cache, sess, started>>

\* The startup framer at the level of bytes: the client's byte stream and
\* MessageFramer.buffer of the connection's clientFramer.
VARIABLES
  rawStream,              \* bytes the peer has yet to deliver, in order
  rawBuffer,              \* MessageFramer.buffer of the framer at hand, a sequence of bytes
  framed                  \* per frame nextBackendMessage returned: type, totalLength, bytes removed, whether off the front


\* The client-to-upstream direction of the pool-mode pipe.
VARIABLES
  pipeSent,               \* every byte the client writes during PIPE, in order
  pipeUp,                 \* the bytes the pipe has written to the pooled upstream connection
  pipeEnd                 \* how the client side of the pipe ended: "none", "terminate", "eof", "malformed"

pipeVars == <<pipeSent, pipeUp, pipeEnd>>
framerVars == <<rawStream, rawBuffer, framed, pipeVars>>

\* The startup codec applied to one frame.
VARIABLES
  wireFrame,              \* a startup frame as a client puts it on the wire
  rebuilt,                \* buildStartupMessage(parseStartupMessage(wireFrame).params)
  reparsed                \* parseStartupMessage of the frame built with `user` replaced

codecVars == <<wireFrame, rebuilt, reparsed>>

\* loadConfig: its three sources and the configuration it returns.
VARIABLES
  fileValues,             \* parseConfigFile(resolvedPath), or the empty map without a file
  envValues,              \* process.env restricted to the names of ENV_MAP
  cliArgs,                \* parseCLIArgs(argv)
  config                  \* the PgvpdConfig loadConfig returned

configVars == <<fileValues, envValues, cliArgs, config>>
libVars == <<framerVars, codecVars, configVars>>
otherVars == <<rateVars, resolverVars, libVars>>

connVars == <<state, clientFramer, serverFramer, upstream, contextValues, actualUser,
              isBypass, bufferedReadyForQuery, client, upSock, startupMsg,
              startupSeen, toClient, toUpstream, opens>>
cliVars == <<c2p, sentStartups, sentMsgs>>
srvVars == <<s2p, srvPhase, srvPos>>
vars == <<contextVariables, poolVars, otherVars, connVars, cliVars, srvVars, received>>

Null == <<"null">>
NoFrame == [t |-> "null", re |-> "null"]

\* the Connection object as one record, so that its methods are functions
Conn ==
  [state |-> state, clientFramer |-> clientFramer, serverFramer |-> serverFramer,
   upstream |-> upstream, contextValues |-> contextValues, actualUser |-> actualUser,
   isBypass |-> isBypass, bufferedReadyForQuery |-> bufferedReadyForQuery,
   client |-> client, upSock |-> upSock, startupMsg |-> startupMsg,
   startupSeen |-> startupSeen, toClient |-> toClient, toUpstream |-> toUpstream, opens |-> opens, threw |-> FALSE]

Install(c) ==
  /\ state' = c.state
  /\ clientFramer' = c.clientFramer
  /\ serverFramer' = c.serverFramer
  /\ upstream' = c.upstream
  /\ contextValues' = c.contextValues
  /\ actualUser' = c.actualUser
  /\ isBypass' = c.isBypass
  /\ bufferedReadyForQuery' = c.bufferedReadyForQuery
  /\ client' = c.client
  /\ upSock' = c.upSock
  /\ startupMsg' = c.startupMsg
  /\ startupSeen' = c.startupSeen
  /\ toClient' = c.toClient
  /\ toUpstream' = c.toUpstream
  /\ opens' = c.opens

\* socket.write on the two sockets
clientWrite(c, frames) == [c EXCEPT !.toClient = @ \o frames]
upstreamWrite(c, items) == [c EXCEPT !.toUpstream = @ \o items]

\* ───────────────────────── Connection: error handling ────────────────────
\* cleanup that destroys the client socket only
cleanup_clientOnly(c) ==
  IF c.state = "CLOSED" THEN c
  ELSE [c EXCEPT !.state = "CLOSED",
                 !.client = "destroyed",
                 !.upstream = "null"]
\* cleanup: nothing when CLOSED; otherwise CLOSED, both sockets destroyed
cleanup(c) ==
  IF c.state = "CLOSED" THEN c
  ELSE [c EXCEPT !.state = "CLOSED",
                 !.client = "destroyed",
                 !.upSock = IF c.upstream = "socket" THEN "destroyed" ELSE @,
                 !.upstream = "null"]

handleError(c) == cleanup(c)

\* sendErrorAndClose without the assignment of State.CLOSED
sendErrorAndClose_stateKept(c, severity, sqlstate, message) ==
  [clientWrite(c, <<buildErrorResponse(severity, sqlstate, message)>>)
     EXCEPT !.client = "ended"]

sendErrorAndClose(c, severity, sqlstate, message) ==
  [clientWrite(c, <<buildErrorResponse(severity, sqlstate, message)>>)
     EXCEPT !.client = "ended", !.state = "CLOSED"]

\* ───────────────────────── Connection: transparent pipe ──────────────────
enterTransparent(c) ==
  LET c1 == [c EXCEPT !.state = "TRANSPARENT"] IN
  IF c1.serverFramer # <<>>
  THEN [clientWrite(c1, c1.serverFramer) EXCEPT !.serverFramer = <<>>]
  ELSE c1

\* ───────────────────────── Connection: upstream connection ───────────────
\* connectUpstream without the assignment of State.CONNECTING
connectUpstream_stateKept(c, msg) ==
  [c EXCEPT !.upstream = "socket", !.upSock = "connecting",
            !.startupMsg = msg, !.opens = @ + 1]
\* connectUpstream: CONNECTING, and net.createConnection called once
connectUpstream(c, msg) ==
  [c EXCEPT !.state = "CONNECTING", !.upstream = "socket", !.upSock = "connecting",
            !.startupMsg = msg, !.opens = @ + 1]

\* the connect callback without its bypass branch
onUpstreamConnect_noBypass(c) ==
  LET c1 == upstreamWrite(c, <<c.startupMsg>>)
      c2 == IF c1.clientFramer # <<>>
            THEN [upstreamWrite(c1, c1.clientFramer) EXCEPT !.clientFramer = <<>>]
            ELSE c1
  IN [c2 EXCEPT !.state = "AUTHENTICATING"]

\* the callback net.createConnection runs once the socket is connected
onUpstreamConnect(c) ==
  LET c1 == upstreamWrite(c, <<c.startupMsg>>)
      c2 == IF c1.clientFramer # <<>>
            THEN [upstreamWrite(c1, c1.clientFramer) EXCEPT !.clientFramer = <<>>]
            ELSE c1
      c3 == [c2 EXCEPT !.state = IF c2.isBypass THEN "TRANSPARENT" ELSE "AUTHENTICATING"]
  IN IF c3.isBypass THEN enterTransparent(c3) ELSE c3

\* ───────────────────────── Connection: startup phase ────────────────────
\* MessageFramer.nextStartupMessage on whole frames: the first buffered
\* frame when it is a startup-phase frame, nothing otherwise
hasStartupMessage(buffer) == buffer # <<>> /\ Head(buffer).kind = "startup"

\* the value split of handleStartupData
splitPayload(tenantPayload) ==
  IF Len(contextVariables) > 1 THEN Split(tenantPayload, valueSeparator) ELSE <<tenantPayload>>

\* the tenant branch of handleStartupData without its empty-value test
classifyTenant_emptyValues(c, startup, rawUser) ==
  LET sepIdx == IndexOf(rawUser, tenantSeparator)
      role == Slice(rawUser, 0, sepIdx)
      tenantPayload == Slice(rawUser, sepIdx + 1, Len(rawUser))
      values == splitPayload(tenantPayload)
      c1 == [c EXCEPT !.actualUser = role]
      c2 == [c1 EXCEPT !.contextValues = values]
  IN
  IF sepIdx = -1
  THEN sendErrorAndClose(c, "FATAL", "28000", "no_separator")
  ELSE IF role = <<>> \/ tenantPayload = <<>>
  THEN sendErrorAndClose(c1, "FATAL", "28000", "empty_role_or_values")
  ELSE IF Len(values) # Len(contextVariables)
  THEN sendErrorAndClose(c2, "FATAL", "28000", "wrong_count")
  ELSE connectUpstream(c2, buildStartupMessage(MapSet(startup.params, "user", role)))

\* handleStartupData from the parsed user name on (tenant connections)
classifyTenant(c, startup, rawUser) ==
  LET sepIdx == IndexOf(rawUser, tenantSeparator)
      role == Slice(rawUser, 0, sepIdx)
      tenantPayload == Slice(rawUser, sepIdx + 1, Len(rawUser))
      values == splitPayload(tenantPayload)
      c1 == [c EXCEPT !.actualUser = role]
      c2 == [c1 EXCEPT !.contextValues = values]
  IN
  IF sepIdx = -1
  THEN sendErrorAndClose(c, "FATAL", "28000", "no_separator")
  ELSE IF role = <<>> \/ tenantPayload = <<>>
  THEN sendErrorAndClose(c1, "FATAL", "28000", "empty_role_or_values")
  ELSE IF Len(values) # Len(contextVariables)
  THEN sendErrorAndClose(c2, "FATAL", "28000", "wrong_count")
  ELSE IF \E i \in 1..Len(values) : values[i] = <<>>
  THEN sendErrorAndClose(c2, "FATAL", "28000", "empty_value")
  ELSE connectUpstream(c2, buildStartupMessage(MapSet(startup.params, "user", role)))

\* handleStartupData that ends the connection on an SSLRequest as on a
\* CancelRequest
handleStartupData_sslCloses(c, data) ==
  LET c1 == [c EXCEPT !.clientFramer = @ \o data] IN
  IF ~hasStartupMessage(c1.clientFramer) THEN c1
  ELSE
    LET msg == Head(c1.clientFramer)
        c1a == [c1 EXCEPT !.clientFramer = Tail(@)]
        c2 == [c1a EXCEPT !.startupSeen = msg]
        startup == parseStartupMessage(msg)
        rawUser == MapGet(startup.params, "user")
    IN
    IF isSSLRequest(msg) \/ isCancelRequest(msg) THEN [c1a EXCEPT !.client = "ended", !.state = "CLOSED"]
    ELSE IF rawUser = Undefined \/ rawUser = <<>>
    THEN sendErrorAndClose(c2, "FATAL", "08004", "no_username")
    ELSE IF Includes(superuserBypass, rawUser)
    THEN connectUpstream([c2 EXCEPT !.isBypass = TRUE], msg)
    ELSE classifyTenant(c2, startup, rawUser)

\* handleStartupData: one startup-phase frame per data event
handleStartupData(c, data) ==
  LET c1 == [c EXCEPT !.clientFramer = @ \o data] IN
  IF ~hasStartupMessage(c1.clientFramer) THEN c1
  ELSE
    LET msg == Head(c1.clientFramer)
        c1a == [c1 EXCEPT !.clientFramer = Tail(@)]
        c2 == [c1a EXCEPT !.startupSeen = msg]
        startup == parseStartupMessage(msg)
        rawUser == MapGet(startup.params, "user")
    IN
    IF isSSLRequest(msg) THEN clientWrite(c1a, <<SSL_DENY>>)
    ELSE IF isCancelRequest(msg) THEN [c1a EXCEPT !.client = "ended", !.state = "CLOSED"]
    ELSE IF rawUser = Undefined \/ rawUser = <<>>
    THEN sendErrorAndClose(c2, "FATAL", "08004", "no_username")
    ELSE IF Includes(superuserBypass, rawUser)
    THEN connectUpstream([c2 EXCEPT !.isBypass = TRUE], msg)
    ELSE classifyTenant(c2, startup, rawUser)

\* ───────────────────────── Connection: client data ───────────────────────
\* onClientData whose TRANSPARENT case buffers like the INJECTING case
onClientData_pipeBuffers(c, data) ==
  CASE c.state = "WAIT_STARTUP" -> handleStartupData(c, data)
    [] c.state \in {"AUTHENTICATING", "POST_AUTH"} -> upstreamWrite(c, data)
    [] c.state \in {"INJECTING", "TRANSPARENT"} -> [c EXCEPT !.clientFramer = @ \o data]
    [] OTHER -> c

onClientData(c, data) ==
  CASE c.state = "WAIT_STARTUP" -> handleStartupData(c, data)
    [] c.state \in {"AUTHENTICATING", "POST_AUTH"} -> upstreamWrite(c, data)
    [] c.state = "INJECTING" -> [c EXCEPT !.clientFramer = @ \o data]
    [] c.state = "TRANSPARENT" -> upstreamWrite(c, data)
    [] OTHER -> c

\* ───────────────────────── Connection: context injection ─────────────────
\* injectTenantContext; `threw` is set when escapeLiteral or quoteIdent throws
injectTenantContext(c) ==
  LET c1 == [c EXCEPT !.state = "INJECTING"] IN
  IF (\E i \in 1..Len(contextVariables) : ~LiteralOk(c.contextValues[i])) \/ ~IdentOk(c.actualUser)
  THEN [c1 EXCEPT !.threw = TRUE]
  ELSE upstreamWrite(c1, <<buildQueryMessage(InjectionSql(contextVariables, c.contextValues, c.actualUser))>>)

\* the frame loop of handleInjectionResponse, after the push
RECURSIVE injectionLoop(_)
injectionLoop(c) ==
  IF c.serverFramer = <<>> THEN c
  ELSE
    LET msg == Head(c.serverFramer)
        c1 == [c EXCEPT !.serverFramer = Tail(@)]
    IN
    IF isErrorResponse(msg) THEN cleanup(clientWrite(c1, <<msg>>))
    ELSE IF isReadyForQuery(msg)
    THEN LET c2 == IF c1.bufferedReadyForQuery # NoFrame
                   THEN [clientWrite(c1, <<c1.bufferedReadyForQuery>>)
                           EXCEPT !.bufferedReadyForQuery = NoFrame]
                   ELSE c1
             c3 == IF c2.clientFramer # <<>>
                   THEN [upstreamWrite(c2, c2.clientFramer) EXCEPT !.clientFramer = <<>>]
                   ELSE c2
         IN enterTransparent(c3)
    ELSE IF isParameterStatus(msg) THEN injectionLoop(clientWrite(c1, <<msg>>))
    ELSE injectionLoop(c1)

\* handleInjectionResponse that waits for the next ReadyForQuery to inject
\* again instead of closing after an ErrorResponse
handleInjectionResponse_retries(c, data) ==
  LET r == injectionLoop([c EXCEPT !.serverFramer = @ \o data]) IN
  IF r.state = "CLOSED"
  THEN [r EXCEPT !.state = "POST_AUTH", !.client = c.client, !.upSock = c.upSock,
                 !.upstream = c.upstream]
  ELSE r
\* handleInjectionResponse: push, then the frame loop
handleInjectionResponse(c, data) == injectionLoop([c EXCEPT !.serverFramer = @ \o data])

\* ───────────────────────── Connection: post-auth phase ───────────────────
RECURSIVE postAuthLoop(_)
postAuthLoop(c) ==
  IF c.serverFramer = <<>> THEN c
  ELSE
    LET msg == Head(c.serverFramer)
        c1 == [c EXCEPT !.serverFramer = Tail(@)]
    IN
    IF isReadyForQuery(msg)
    THEN injectTenantContext([c1 EXCEPT !.bufferedReadyForQuery = msg])
    ELSE postAuthLoop(clientWrite(c1, <<msg>>))

handlePostAuthData(c, data) == postAuthLoop([c EXCEPT !.serverFramer = @ \o data])

\* ───────────────────────── Connection: authentication phase ──────────────
RECURSIVE authLoop(_)
authLoop(c) ==
  IF c.serverFramer = <<>> THEN c
  ELSE
    LET msg == Head(c.serverFramer)
        c1 == clientWrite([c EXCEPT !.serverFramer = Tail(@)], <<msg>>)
    IN
    IF isAuthOk(msg)
    THEN LET c2 == [c1 EXCEPT !.state = "POST_AUTH"] IN
         IF c2.serverFramer # <<>>
         THEN handlePostAuthData([c2 EXCEPT !.serverFramer = <<>>], c2.serverFramer)
         ELSE c2
    ELSE authLoop(c1)

handleAuthData(c, data) == authLoop([c EXCEPT !.serverFramer = @ \o data])

\* ───────────────────────── Connection: server data ───────────────────────
dispatchServerData(c, data) ==
  CASE c.state = "TRANSPARENT" -> clientWrite(c, data)
    [] c.state = "AUTHENTICATING" -> handleAuthData(c, data)
    [] c.state = "POST_AUTH" -> handlePostAuthData(c, data)
    [] c.state = "INJECTING" -> handleInjectionResponse(c, data)
    [] OTHER -> clientWrite(c, data)

\* onServerData: the dispatch inside try, handleError in catch
onServerData(c, data) ==
  LET r == dispatchServerData(c, data) IN
  IF r.threw THEN handleError([r EXCEPT !.threw = FALSE]) ELSE r

\* ───────────────────────── the client peer ───────────────────────────────
\* user names the client may put into its StartupMessage: every string over
\* Alphabet up to MaxUserLen, and some more with a value separator, a
\* hyphen or several values
ExtraUsers ==
  { <<":">>, <<".", ":">>,
    <<"a", ".", "a">>, <<"a", ".", ".">>, <<"a", ".", ":">>, <<":", ".", "a">>,
    <<"a", ".", "a", ".", "a">>, <<"-", ".", "a">>, <<"a", ".", "-">>,
    <<"a", ".", "a", ":", "a">>, <<"a", ".", "a", ":", "-", ".">>,
    <<"-", ".", "a", ":", "a">>, <<"a", ".", "a", ":", "a", ":", "a">>,
    <<"a", ".", "a", ":", ":", "a">> }
Users == SeqsUpTo(Alphabet, MaxUserLen) \cup ExtraUsers

Database == <<"database", <<"d">>>>
\* a later minor protocol version, as newer clients request it
PROTOCOL_VERSION_32 == PROTOCOL_VERSION_30 + 2
StartupFrames ==
  { StartupFrame(PROTOCOL_VERSION_30, <<Database>>) }
  \cup { StartupFrame(PROTOCOL_VERSION_30, << <<"user", u>>, Database >>) : u \in Users }
  \cup { StartupFrame(PROTOCOL_VERSION_32, << <<"user", u>>, Database >>) :
           u \in { <<"a", "a">>, <<"a", ".", "a">> } }
RequestFrames ==
  { StartupFrame(SSL_REQUEST_CODE, <<>>), StartupFrame(GSS_REQUEST_CODE, <<>>) }
CancelFrame == StartupFrame(CANCEL_REQUEST_CODE, <<>>)

\* the client writes an SSLRequest or GSSENCRequest
ClientSendRequest ==
  /\ client # "destroyed"
  /\ sentStartups + 1 < MaxStartupFrames
  /\ sentMsgs = 0
  /\ \E f \in RequestFrames : c2p' = Append(c2p, f)
  /\ sentStartups' = sentStartups + 1
  /\ UNCHANGED <<contextVariables, poolVars, otherVars, connVars, sentMsgs, srvVars, received>>

\* the client writes its StartupMessage or a CancelRequest; no startup-phase
\* frame follows it
ClientSendStartup ==
  /\ client # "destroyed"
  /\ sentStartups < MaxStartupFrames
  /\ sentMsgs = 0
  /\ \E f \in StartupFrames \cup {CancelFrame} : c2p' = Append(c2p, f)
  /\ sentStartups' = MaxStartupFrames
  /\ UNCHANGED <<contextVariables, poolVars, otherVars, connVars, sentMsgs, srvVars, received>>

\* the client writes a typed message (a password response or a query)
ClientSendMsg ==
  /\ client # "destroyed"
  /\ sentStartups = MaxStartupFrames
  /\ sentMsgs < MaxClientMsgs
  /\ \E m \in {PasswordMessage, ClientQuery} : c2p' = Append(c2p, m)
  /\ sentMsgs' = sentMsgs + 1
  /\ UNCHANGED <<contextVariables, poolVars, otherVars, connVars, sentStartups, srvVars, received>>

\* ───────────────────────── the PostgreSQL server ─────────────────────────
\* frames of a successful session start, from AuthenticationOk on
SessionStart ==
  <<AuthFrame(0), BackendFrame("S", "startup"), BackendFrame("K", "startup"),
    BackendFrame("Z", "startup")>>

\* authentication accepted, session start refused (no such database, ...)
SessionRefused == <<AuthFrame(0), BackendFrame("E", "startup")>>

\* what the server may emit on reading `item` in phase `phase`, and the
\* phase it is in afterwards
ServerReplies(phase, item) ==
  IF phase = "startup" /\ item.kind = "startup"
  THEN { [out |-> SessionStart, phase |-> "idle"],
         [out |-> SessionRefused, phase |-> "closed"],
         [out |-> <<AuthFrame(3)>>, phase |-> "auth"],
         [out |-> <<BackendFrame("E", "startup")>>, phase |-> "closed"] }
  ELSE IF phase = "auth" /\ item.kind = "p"
  THEN { [out |-> SessionStart, phase |-> "idle"],
         [out |-> SessionRefused, phase |-> "closed"],
         [out |-> <<BackendFrame("E", "startup")>>, phase |-> "closed"] }
  ELSE IF phase = "idle" /\ item.kind = "Q"
  THEN LET re == IF item.by = "proxy" THEN "injection" ELSE "client" IN
       { [out |-> <<BackendFrame("S", re), BackendFrame("C", re), BackendFrame("Z", re)>>,
          phase |-> "idle"],
         [out |-> <<BackendFrame("E", re), BackendFrame("Z", re)>>, phase |-> "idle"] }
  ELSE { [out |-> <<BackendFrame("E", "protocol")>>, phase |-> "closed"] }

\* the server reads the next message of its input and replies
ServerStep ==
  /\ upSock = "open"
  /\ srvPhase # "closed"
  /\ srvPos < Len(toUpstream)
  /\ \E r \in ServerReplies(srvPhase, toUpstream[srvPos + 1]) :
       /\ s2p' = s2p \o r.out
       /\ srvPhase' = r.phase
  /\ srvPos' = srvPos + 1
  /\ UNCHANGED <<contextVariables, poolVars, otherVars, connVars, cliVars, received>>

\* ───────────────────────── socket events ─────────────────────────────────
\* sizes of the chunk a 'data' event may carry: any non-empty prefix of what is in flight
ChunkSizes(wire) == 1..Len(wire)

\* client.on("data")
ClientData ==
  /\ client \in {"open", "ended"}
  /\ c2p # <<>>
  /\ \E k \in ChunkSizes(c2p) :
       /\ Install(onClientData(Conn, SubSeq(c2p, 1, k)))
       /\ c2p' = SubSeq(c2p, k + 1, Len(c2p))
  /\ UNCHANGED <<contextVariables, poolVars, otherVars, sentStartups, sentMsgs, srvVars, received>>

\* client.on("close") and client.on("error")
ClientClose ==
  /\ client \in {"open", "ended"}
  /\ Install(handleError(Conn))
  /\ UNCHANGED <<contextVariables, poolVars, otherVars, cliVars, srvVars, received>>

\* the connect callback of net.createConnection
UpstreamConnect ==
  /\ upSock = "connecting"
  /\ Install([onUpstreamConnect(Conn) EXCEPT !.upSock = "open"])
  /\ UNCHANGED <<contextVariables, poolVars, otherVars, cliVars, srvVars, received>>

\* upstream.on("data")
ServerData ==
  /\ upSock = "open"
  /\ s2p # <<>>
  /\ \E k \in ChunkSizes(s2p) :
       /\ Install(onServerData(Conn, SubSeq(s2p, 1, k)))
       /\ received' = received \o SubSeq(s2p, 1, k)
       /\ s2p' = SubSeq(s2p, k + 1, Len(s2p))
  /\ UNCHANGED <<contextVariables, poolVars, otherVars, cliVars, srvPhase, srvPos>>

\* upstream.on("close") and upstream.on("error")
UpstreamClose ==
  /\ upSock \in {"connecting", "open"}
  /\ Install(handleError(Conn))
  /\ UNCHANGED <<contextVariables, poolVars, otherVars, cliVars, srvVars, received>>

\* ───────────────────────── specification ─────────────────────────────────
\* the tasks, tenants and pooled connections of pool mode; a task opens at
\* most one upstream connection, which carries the task's number
Tasks == 1..MaxTasks
Tenants == {"t1", "t2"}
NoCtx == "none"

\* pool mode `none`: no task, an empty registry and an empty pool
PoolUnused ==
  /\ tenantMax = 0
  /\ poolSize = 0
  /\ active = [tn \in Tenants |-> 0]
  /\ live = 0
  /\ idle = <<>>
  /\ reaped = {}
  /\ upConn = [k \in Tasks |-> [st |-> "absent", ctx |-> NoCtx]]
  /\ now = 0
  /\ pc = [t \in Tasks |-> "done"]
  /\ tenantOf = [t \in Tasks |-> "t1"]
  /\ held = [t \in Tasks |-> 0]
  /\ result = [t \in Tasks |-> "none"]
  /\ releases = [t \in Tasks |-> 0]

\* no rate limit configured and no admission attempt made
RateUnused ==
  /\ rateLimit = 0
  /\ window = [tn \in Tenants |-> [start |-> -1, count |-> 0]]
  /\ attempts = 0
  /\ admitTimes = [tn \in Tenants |-> <<>>]
  /\ verdict = "none"

\* the configured resolvers, in declaration order, and a name no resolver has
ResolverNames == <<"r1", "r2">>
Names == {ResolverNames[k] : k \in 1..Len(ResolverNames)}
UnknownName == "rx"
\* the session variables: the context variable of the identity, and the one
\* each resolver's injection map sets
IdentityVar == "app.v1"
Out(n) == IF n = "r1" THEN "app.o1" ELSE "app.o2"
SessionVars == {IdentityVar} \cup {Out(n) : n \in Names}
Unset == "unset"
NoErr == [code |-> "none", resolver |-> "none"]
NoRow == "norow"
NoEntry == [name |-> "none", params |-> Unset, row |-> NoRow, exp |-> 0]
\* a connection before RESOLVING; kind is how its latest resolver ended:
\* "hit", "row", "norow" or "error"
NewSession == [pc |-> "IDLE", i |-> 0, ctx |-> [v \in SessionVars |-> Unset],
               err |-> NoErr, kind |-> "none"]

\* no resolver file: the engine is never loaded
ResolverUnused ==
  /\ resolvers = [n \in Names |-> [depends_on |-> {}, param |-> IdentityVar,
                                    required |-> FALSE, cache_ttl |-> 0]]
  /\ engine = "unloaded"
  /\ order = <<>>
  /\ cache = <<>>
  /\ sess = NewSession
  /\ started = 0

\* no pool-mode pipe
PipeUnused ==
  /\ pipeSent = <<>>
  /\ pipeUp = <<>>
  /\ pipeEnd = "none"

\* no byte-level stream, no codec input, and no configuration being loaded
NoConfig == [listenPort |-> 0, logLevel |-> <<>>, tenantSeparator |-> <<>>]
LibUnused ==
  /\ rawStream = <<>>
  /\ rawBuffer = <<>>
  /\ framed = <<>>
  /\ PipeUnused
  /\ wireFrame = NoFrame
  /\ rebuilt = NoFrame
  /\ reparsed = <<>>
  /\ fileValues = <<>>
  /\ envValues = <<>>
  /\ cliArgs = <<>>
  /\ config = NoConfig

\* the parts of the proxy that the session at hand does not use
OtherUnused == RateUnused /\ ResolverUnused /\ LibUnused

\* a freshly constructed Connection and its peers
ConnInit ==
  /\ state = "WAIT_STARTUP"
  /\ clientFramer = <<>>
  /\ serverFramer = <<>>
  /\ upstream = "null"
  /\ contextValues = <<>>
  /\ actualUser = Null
  /\ isBypass = FALSE
  /\ bufferedReadyForQuery = NoFrame
  /\ client = "open"
  /\ upSock = "none"
  /\ startupMsg = NoFrame
  /\ startupSeen = NoFrame
  /\ toClient = <<>>
  /\ toUpstream = <<>>
  /\ opens = 0
  /\ c2p = <<>>
  /\ sentStartups = 0
  /\ sentMsgs = 0
  /\ s2p = <<>>
  /\ srvPhase = "startup"
  /\ srvPos = 0
  /\ received = <<>>

Init ==
  /\ contextVariables \in {SubSeq(VarNames, 1, n) : n \in 1..MaxVars}
  /\ ConnInit
  /\ PoolUnused
  /\ OtherUnused

Next ==
  \/ ClientSendRequest
  \/ ClientSendStartup
  \/ ClientSendMsg
  \/ ClientData
  \/ ClientClose
  \/ UpstreamConnect
  \/ ServerStep
  \/ ServerData
  \/ UpstreamClose

Spec == Init /\ [][Next]_vars

\* ───────────────────────── vocabulary of the properties ─────────────────
HasType(frames, t) == \E i \in 1..Len(frames) : frames[i].t = t
HasFrame(frames, t, re) == \E i \in 1..Len(frames) : frames[i].t = t /\ frames[i].re = re
CountType(frames, t) == Cardinality({i \in 1..Len(frames) : frames[i].t = t})
CountFrame(frames, t, re) ==
  Cardinality({i \in 1..Len(frames) : frames[i].t = t /\ frames[i].re = re})

\* the injection queries the proxy has written upstream
InjectionsSent == {i \in 1..Len(toUpstream) : toUpstream[i].kind = "Q" /\ toUpstream[i].by = "proxy"}

\* the server's answer to the injection query has reached the proxy: its
\* ReadyForQuery, and no ErrorResponse
InjectionConfirmed ==
  HasFrame(received, "Z", "injection") /\ ~HasFrame(received, "E", "injection")

TenantConnection == ~isBypass

\* C1: on a tenant connection the client is sent no ReadyForQuery before the
\* server has answered the injection query with ReadyForQuery and without an
\* ErrorResponse; while the injection runs the server's first ReadyForQuery
\* sits in the buffer and has not been forwarded.
C1_ReadyOnlyAfterInjection ==
  TenantConnection =>
    /\ HasType(toClient, "Z") => InjectionConfirmed
    /\ state = "INJECTING" =>
         /\ bufferedReadyForQuery = BackendFrame("Z", "startup")
         /\ ~HasType(toClient, "Z")

\* the value the StartupMessage `f` gives for `user` (the last such pair)
UserPairs(f) == {i \in 1..Len(f.params) : f.params[i][1] = "user"}
ClaimedUser(f) ==
  IF UserPairs(f) = {} THEN Undefined
  ELSE f.params[CHOOSE i \in UserPairs(f) : \A j \in UserPairs(f) : j <= i][2]

\* position of the first frame of type t in `frames`, 0 when there is none
FirstOfType(frames, t) ==
  IF HasType(frames, t)
  THEN CHOOSE i \in 1..Len(frames) :
         frames[i].t = t /\ \A j \in 1..(i - 1) : frames[j].t # t
  ELSE 0

\* C2: a tenant connection in TRANSPARENT has sent the upstream the rewritten
\* startup message first and exactly one injection query, the server's
\* AuthenticationOk came before its first ReadyForQuery, and the server's
\* ReadyForQuery confirming the injection came before any ReadyForQuery was
\* delivered to the client.
C2_HandshakeOrder ==
  (TenantConnection /\ state = "TRANSPARENT") =>
    /\ toUpstream # <<>>
    /\ toUpstream[1] = startupMsg
    /\ ClaimedUser(toUpstream[1]) = actualUser
    /\ Cardinality(InjectionsSent) = 1
    /\ \E i \in 1..Len(received) :
         /\ received[i].t = "R" /\ received[i].auth = 0
         /\ i < FirstOfType(received, "Z")
    /\ HasType(toClient, "Z") => HasFrame(received, "Z", "injection")

\* C3: once the server has answered the injection query with an
\* ErrorResponse, that frame has been forwarded to the client, both sockets
\* are closed, the handler is CLOSED and not TRANSPARENT, and the client has
\* received no ReadyForQuery.
C3_InjectionErrorCloses ==
  (TenantConnection /\ HasFrame(received, "E", "injection")) =>
    /\ HasFrame(toClient, "E", "injection")
    /\ state = "CLOSED"
    /\ client = "destroyed"
    /\ upSock = "destroyed"
    /\ ~HasType(toClient, "Z")

\* C7: a tenant connection in TRANSPARENT has been handed exactly one
\* ReadyForQuery by the handshake, the buffered one, and the buffer is
\* cleared; the ReadyForQuery that confirms the injection is never forwarded.
C7_ExactlyOneReady ==
  TenantConnection =>
    /\ state = "TRANSPARENT" =>
         /\ CountFrame(toClient, "Z", "startup") = 1
         /\ bufferedReadyForQuery = NoFrame
    /\ ~HasFrame(toClient, "Z", "injection")

\* ───────────────────────── the user name, read as the contract reads it ──
\* positions of `ch` in s, the number of pieces they cut s into, the k-th
\* cut (0 before the first piece, Len(s) + 1 after the last) and the k-th piece
SepPositions(s, ch) == {i \in 1..Len(s) : s[i] = ch}
PieceCount(s, ch) == Cardinality(SepPositions(s, ch)) + 1
Boundary(s, ch, k) ==
  IF k = 0 THEN 0
  ELSE IF k > Cardinality(SepPositions(s, ch)) THEN Len(s) + 1
  ELSE CHOOSE i \in SepPositions(s, ch) :
         Cardinality({j \in SepPositions(s, ch) : j <= i}) = k
Piece(s, ch, k) == SubSeq(s, Boundary(s, ch, k - 1) + 1, Boundary(s, ch, k) - 1)

RoleOf(u) == Piece(u, tenantSeparator, 1)
PayloadOf(u) == SubSeq(u, Boundary(u, tenantSeparator, 1) + 1, Len(u))

StartupParsed == startupSeen # NoFrame
RawUser == IF StartupParsed THEN ClaimedUser(startupSeen) ELSE Undefined
NumVars == Len(contextVariables)

\* what a raw user name u is
HasUser(u) == u # Undefined /\ u # <<>>
IsBypassUser(u) == HasUser(u) /\ \E i \in 1..Len(superuserBypass) : superuserBypass[i] = u
TenantUser(u) == HasUser(u) /\ ~IsBypassUser(u)

\* the reasons for an identity rejection
NoUserRejection(u) == StartupParsed /\ ~HasUser(u)
MalformedIdentity(u) ==
  TenantUser(u) /\ ( \/ SepPositions(u, tenantSeparator) = {}
                     \/ RoleOf(u) = <<>>
                     \/ PayloadOf(u) = <<>> )
WrongValueCount(u) ==
  /\ TenantUser(u)
  /\ SepPositions(u, tenantSeparator) # {}
  /\ PieceCount(PayloadOf(u), valueSeparator) # NumVars
EmptyValue(u) ==
  /\ TenantUser(u)
  /\ SepPositions(u, tenantSeparator) # {}
  /\ LET payload == PayloadOf(u) IN
     \E k \in 1..PieceCount(payload, valueSeparator) : Piece(payload, valueSeparator, k) = <<>>

\* the ErrorResponse frames the proxy itself has written to the client
ProxyErrors == {i \in 1..Len(toClient) : toClient[i].t = "E" /\ toClient[i].re = "proxy"}
LastToClient == toClient[Len(toClient)]

\* the tenant user name was accepted and an upstream connection requested
Accepted == opens >= 1 /\ TenantUser(RawUser)

\* C4: every identity rejection at startup (no user, no separator, empty role
\* or payload, and with two or more variables a wrong number of values or an
\* empty value) has sent the client exactly one ErrorResponse, FATAL with
\* SQLSTATE 08004 for a missing user and 28000 otherwise, as the last thing
\* written to it; the client socket is ended, no upstream connection was ever
\* opened, and nothing the client sends afterwards has any effect.
C4_RejectionAtStartup ==
  LET u == RawUser IN
  /\ ( \/ NoUserRejection(u)
       \/ MalformedIdentity(u)
       \/ (NumVars >= 2 /\ (WrongValueCount(u) \/ EmptyValue(u))) ) => ProxyErrors # {}
  /\ ProxyErrors # {} =>
       /\ Cardinality(ProxyErrors) = 1
       /\ LastToClient.t = "E" /\ LastToClient.re = "proxy"
       /\ LastToClient.S = "FATAL"
       /\ LastToClient.C = IF NoUserRejection(u) THEN "08004" ELSE "28000"
       /\ client = "ended"
       /\ opens = 0 /\ upSock = "none" /\ toUpstream = <<>>
       /\ state = "CLOSED"

\* a user name without separator was rejected and the proxy has since been
\* handed everything the client sent after it
C4_Witness ==
  /\ ProxyErrors # {}
  /\ MalformedIdentity(RawUser)
  /\ sentMsgs = MaxClientMsgs /\ c2p = <<>>
  /\ LastToClient.C = "28000"

\* the frames of toClient that came from the server
FromServer(f) == f.re # "proxy"

\* C5: a connection is a bypass connection exactly when its raw user name is
\* an entry of the bypass list; such a connection only ever is in CONNECTING,
\* TRANSPARENT or CLOSED, the first thing written upstream is the client's
\* own startup frame, no proxy-originated Query is written upstream, no
\* ReadyForQuery is held back, and the client has been written exactly the
\* frames read from the server, in order.
C5_BypassIsTransparent ==
  /\ StartupParsed => (isBypass <=> IsBypassUser(RawUser))
  /\ isBypass =>
       /\ state \in {"CONNECTING", "TRANSPARENT", "CLOSED"}
       /\ state = "TRANSPARENT" => toUpstream # <<>>
       /\ toUpstream # <<>> => toUpstream[1] = startupSeen
       /\ InjectionsSent = {}
       /\ bufferedReadyForQuery = NoFrame
       /\ SelectSeq(toClient, FromServer) = received

\* a bypass connection opened with a protocol-3.2 startup frame has relayed
\* the server's ReadyForQuery and a client message
C5_Witness ==
  /\ isBypass /\ state = "TRANSPARENT"
  /\ startupSeen.code = PROTOCOL_VERSION_32
  /\ HasType(toClient, "Z")
  /\ Len(toUpstream) >= 2

\* the text `SET <name 1> = '<value 1>'; ... SET ROLE "<role>";`: one SET per
\* name in order, then SET ROLE, each statement closed by ';' and the
\* statements one blank apart
InjectionText(names, values, role) ==
  Flatten([k \in 1..Len(names) |->
             <<"SET", " ", names[k], " ", "=", " ", "'">> \o values[k] \o <<"'", ";", " ">>])
    \o <<"SET", " ", "ROLE", " ", "\"">> \o role \o <<"\"", ";">>

\* C6: every injection query is one Query message whose text is, for each
\* configured variable in configuration order, `SET <variable k> = '<value k>'`,
\* then `SET ROLE "<effective role>"` as the last statement, with ';' after
\* every statement and nothing after the last ';'.
C6_InjectionText ==
  \A i \in InjectionsSent :
    /\ toUpstream[i].kind = "Q"
    /\ toUpstream[i].sql = InjectionText(contextVariables, contextValues, actualUser)

\* an injection with two different values has been written upstream
C6_Witness ==
  /\ InjectionsSent # {}
  /\ NumVars = 2
  /\ contextValues[1] # contextValues[2]

\* the rejection C8 speaks of: SQLSTATE 28000, no upstream connection
Rejected28000 ==
  /\ ProxyErrors # {}
  /\ LastToClient.t = "E" /\ LastToClient.C = "28000"
  /\ opens = 0 /\ upSock = "none" /\ toUpstream = <<>>

\* C8 as stated, for every number N >= 1 of context variables: a tenant user
\* name whose payload, split on valueSeparator, does not yield exactly N
\* values, or yields an empty value, is rejected with 28000 before any
\* upstream connection is opened.
C8_ValueCountAnyN ==
  LET u == RawUser IN
  (NumVars >= 1 /\ (WrongValueCount(u) \/ EmptyValue(u))) => Rejected28000

\* C8, for N >= 2 context variables: a tenant user name whose payload, split
\* on valueSeparator, does not yield exactly N values, or yields an empty
\* value, is rejected with 28000 before any upstream connection is opened.
C8_ValueCount ==
  LET u == RawUser IN
  (NumVars >= 2 /\ (WrongValueCount(u) \/ EmptyValue(u))) => Rejected28000

\* with two variables, a payload of two values of which one is empty was rejected
C8_Witness ==
  LET u == RawUser IN
  /\ NumVars = 2
  /\ EmptyValue(u) /\ ~WrongValueCount(u) /\ ~MalformedIdentity(u)
  /\ Rejected28000

\* C9: for an accepted tenant user name the effective role is the part before
\* the first tenantSeparator and the payload everything after it; the startup
\* message written upstream carries the role as `user` and the client's other
\* parameters; and every injection binds the k-th value of the payload to the
\* k-th variable and sets that role.
C9_RoleAndValues ==
  Accepted =>
    LET u == RawUser
        role == RoleOf(u)
        payload == PayloadOf(u)
    IN
    /\ actualUser = role
    /\ Join(contextValues, <<valueSeparator>>) = payload
    /\ ClaimedUser(startupMsg) = role
    /\ Len(startupMsg.params) = Len(startupSeen.params)
    /\ \A j \in 1..Len(startupSeen.params) :
         startupSeen.params[j][1] # "user" => startupMsg.params[j] = startupSeen.params[j]
    /\ toUpstream # <<>> => toUpstream[1] = startupMsg
    /\ \A i \in InjectionsSent :
         toUpstream[i].sql =
           InjectionText(contextVariables,
                         [k \in 1..NumVars |-> Piece(payload, valueSeparator, k)], role)

\* an injection was sent for a user name holding the tenant separator twice
C9_Witness ==
  /\ Accepted
  /\ InjectionsSent # {}
  /\ Cardinality(SepPositions(RawUser, tenantSeparator)) >= 2

\* ^[A-Za-z0-9_\-.]+$ and ^[A-Za-z0-9_]+$ over the characters of the model
MatchesValuePattern(v) == v # <<>> /\ \A i \in 1..Len(v) : v[i] \in {"a", "-", "."}
MatchesRolePattern(r) == r # <<>> /\ \A i \in 1..Len(r) : r[i] = "a"
UnsafeIdentity ==
  \/ \E k \in 1..Len(contextValues) : ~MatchesValuePattern(contextValues[k])
  \/ ~MatchesRolePattern(actualUser)

\* C10: on an accepted tenant connection with a context value or a role that
\* does not match its pattern, no injection Query is ever written upstream,
\* the client is never written a ReadyForQuery, the handler is never left in
\* INJECTING or TRANSPARENT, and once the server's ReadyForQuery has been
\* read the connection is closed on both sides.
C10_UnsafeIdentityRefused ==
  (Accepted /\ UnsafeIdentity) =>
    /\ InjectionsSent = {}
    /\ ~HasType(toClient, "Z")
    /\ state \notin {"INJECTING", "TRANSPARENT"}
    /\ HasType(received, "Z") =>
         state = "CLOSED" /\ client = "destroyed" /\ upSock = "destroyed"

\* the server authenticated such a connection and its ReadyForQuery was read
C10_Witness ==
  /\ Accepted /\ UnsafeIdentity
  /\ HasType(received, "Z")
  /\ state = "CLOSED"

\* the tenant connection failed before TRANSPARENT because the server
\* answered the injection query with an ErrorResponse
InjectionFailed ==
  TenantConnection /\ HasFrame(received, "E", "injection") /\ ~HasType(toClient, "Z")

\* the tenant connection failed before TRANSPARENT because escapeLiteral or
\* quoteIdent refused a value or the role when the injection was to be built
EscaperRefused == Accepted /\ UnsafeIdentity /\ HasType(received, "Z")

\* C11: a connection that failed before TRANSPARENT for a reason other than
\* a transport failure (identity rejection, escaper rejection of a value or
\* role, injection error) has been written exactly one ErrorResponse, and its
\* client socket is closed.
C11_SingleErrorGate ==
  (ProxyErrors # {} \/ EscaperRefused \/ InjectionFailed) =>
    /\ CountType(toClient, "E") = 1
    /\ client # "open"

\* a ParameterStatus or BackendKeyData frame of the session start, or a
\* ParameterStatus sent in reply to the injection query
HandshakeStatus(f) == f.t \in {"S", "K"} /\ f.re \in {"startup", "injection"}

\* C12: on a tenant connection that has been delivered its ReadyForQuery,
\* the ParameterStatus and BackendKeyData frames the server sent between
\* AuthenticationOk and its first ReadyForQuery and the ParameterStatus
\* frames it sent in reply to the injection query were all written to the
\* client before that ReadyForQuery, in server order.
C12_StatusBeforeReady ==
  (TenantConnection /\ HasType(toClient, "Z")) =>
    SelectSeq(SubSeq(toClient, 1, FirstOfType(toClient, "Z") - 1), HandshakeStatus)
      = SelectSeq(received \o serverFramer \o s2p, HandshakeStatus)

\* what a step taken in TRANSPARENT may do: a chunk taken off the client's
\* wire is appended as it is to what was written upstream, a chunk taken off
\* the server's wire is appended as it is to what was written to the client,
\* nothing else is written to either peer, and the handler stays in
\* TRANSPARENT or is CLOSED with both sockets destroyed
PipeStep ==
  state = "TRANSPARENT" =>
    /\ state' \in {"TRANSPARENT", "CLOSED"}
    /\ toUpstream' =
         IF Len(c2p') < Len(c2p)
         THEN toUpstream \o SubSeq(c2p, 1, Len(c2p) - Len(c2p'))
         ELSE toUpstream
    /\ toClient' =
         IF Len(s2p') < Len(s2p)
         THEN toClient \o SubSeq(s2p, 1, Len(s2p) - Len(s2p'))
         ELSE toClient
    /\ state' = "CLOSED" => client' = "destroyed" /\ upSock' = "destroyed"

\* C13: once a connection is in TRANSPARENT every chunk received from one
\* peer is written unchanged and in arrival order to the other peer, the
\* proxy writes nothing of its own to either peer, and a failure only
\* destroys both sockets.
C13_TransparentPipe == [][PipeStep]_vars

\* a tenant connection in TRANSPARENT has piped a client Query upstream and
\* the server's reply to it, CommandComplete included, to the client
C13_Witness ==
  /\ TenantConnection /\ state = "TRANSPARENT"
  /\ InjectionConfirmed
  /\ toUpstream[Len(toUpstream)] = ClientQuery
  /\ HasFrame(toClient, "C", "client")
  /\ toClient[Len(toClient)] = BackendFrame("Z", "client")

\* ───────────────────────── scheduling ────────────────────────────────────
\* The event loop runs every handler whose event is pending: data that has
\* arrived on a socket is delivered, a connection attempt completes, and the
\* server works off what it has been sent.  The client is under no
\* obligation to send anything.
FairSpec ==
  /\ Spec
  /\ WF_vars(ClientData)
  /\ WF_vars(ServerData)
  /\ WF_vars(UpstreamConnect)
  /\ WF_vars(ServerStep)

\* C14: every accepted connection leaves the handshake: it reaches
\* TRANSPARENT or is closed, also when the client never sends a complete
\* startup frame or the upstream stops answering.
C14_LeavesHandshake == <>(state \in {"TRANSPARENT", "CLOSED"})

\* ═════════════════════════ pool mode: registry and pool ══════════════════
\* Handler tasks that share the tenant registry and one pool bucket.  The
\* configuration sets tenant_max_connections and pool_size and leaves the
\* allow/deny lists and the rate limit unset.
handlerVars == <<contextVariables, connVars, cliVars, srvVars, received>>

\* pool_idle_timeout, in ticks of the clock
poolIdleTimeout == 1

\* the positions of a task in which it holds its TenantGuard
GuardHeld == {"CHECKOUT", "WAITING", "OPENING", "INJECTING", "PIPE",
              "ROLLBACK", "DISCARD", "RELEASE"}
\* the positions of a task in which it has a connection checked out
CheckedOut == {"OPENING", "INJECTING", "PIPE", "ROLLBACK", "DISCARD"}

\* registry admit(tenant): the max-concurrent check and the increment, under
\* the tenant's lock
admit_unchecked(act, tn) ==
  [ok |-> TRUE, reason |-> "none", active |-> [act EXCEPT ![tn] = @ + 1]]
admit(act, tn) ==
  IF act[tn] >= tenantMax
  THEN [ok |-> FALSE, reason |-> "Limit", active |-> act]
  ELSE [ok |-> TRUE, reason |-> "none", active |-> [act EXCEPT ![tn] = @ + 1]]

\* TENANT_CONNECT: the task asks the registry to admit its tenant
Admit(t) ==
  /\ pc[t] = "TENANT_CONNECT"
  /\ \E tn \in Tenants :
       LET r == admit(active, tn) IN
       /\ active' = r.active
       /\ tenantOf' = [tenantOf EXCEPT ![t] = tn]
       /\ pc' = [pc EXCEPT ![t] = IF r.ok THEN "CHECKOUT" ELSE "DONE"]
       /\ result' = [result EXCEPT ![t] = r.reason]
  /\ UNCHANGED <<tenantMax, poolSize, live, idle, reaped, upConn, now, held, releases>>
  /\ UNCHANGED <<handlerVars, otherVars>>

\* the TenantGuard is dropped when the task ends
Release_leaks(t) ==
  /\ pc[t] = "RELEASE"
  /\ pc' = [pc EXCEPT ![t] = "DONE"]
  /\ active' = IF result[t] = "none" THEN [active EXCEPT ![tenantOf[t]] = @ - 1] ELSE active
  /\ releases' = [releases EXCEPT ![t] = IF result[t] = "none" THEN @ + 1 ELSE @]
  /\ UNCHANGED <<tenantMax, poolSize, live, idle, reaped, upConn, now, tenantOf, held, result>>
  /\ UNCHANGED <<handlerVars, otherVars>>
Release(t) ==
  /\ pc[t] = "RELEASE"
  /\ pc' = [pc EXCEPT ![t] = "DONE"]
  /\ active' = [active EXCEPT ![tenantOf[t]] = @ - 1]
  /\ releases' = [releases EXCEPT ![t] = @ + 1]
  /\ UNCHANGED <<tenantMax, poolSize, live, idle, reaped, upConn, now, tenantOf, held, result>>
  /\ UNCHANGED <<handlerVars, otherVars>>

\* pool checkout, decided under the bucket's lock: reuse the head of the idle
\* queue, else create a connection while live-count is below pool_size, else wait
checkout_overCapacity(q, n) ==
  IF q # <<>> THEN "reuse" ELSE IF n <= poolSize THEN "create" ELSE "wait"
checkout(q, n) ==
  IF q # <<>> THEN "reuse" ELSE IF n < poolSize THEN "create" ELSE "wait"

\* a task checks out, for the first time or while it waits
Checkout(t) ==
  /\ pc[t] \in {"CHECKOUT", "WAITING"}
  /\ LET how == checkout(idle, live) IN
     /\ pc[t] = "WAITING" => how # "wait"
     /\ pc' = [pc EXCEPT ![t] = CASE how = "reuse" -> "INJECTING"
                                  [] how = "create" -> "OPENING"
                                  [] OTHER -> "WAITING"]
     /\ idle' = IF how = "reuse" THEN Tail(idle) ELSE idle
     /\ held' = IF how = "reuse" THEN [held EXCEPT ![t] = Head(idle).id] ELSE held
     /\ live' = IF how = "create" THEN live + 1 ELSE live
  /\ UNCHANGED <<tenantMax, poolSize, active, reaped, upConn, now, tenantOf, result, releases>>
  /\ UNCHANGED <<handlerVars, otherVars>>

\* the new upstream connection is open and authenticated
OpenDone(t) ==
  /\ pc[t] = "OPENING"
  /\ upConn' = [upConn EXCEPT ![t] = [st |-> "open", ctx |-> NoCtx]]
  /\ held' = [held EXCEPT ![t] = t]
  /\ pc' = [pc EXCEPT ![t] = "INJECTING"]
  /\ UNCHANGED <<tenantMax, poolSize, active, live, idle, reaped, now, tenantOf, result, releases>>
  /\ UNCHANGED <<handlerVars, otherVars>>

\* a checkout timeout that gives up the slot of a connection it never had
CheckoutTimeout_dropsLive(t) ==
  /\ pc[t] = "WAITING"
  /\ result' = [result EXCEPT ![t] = "53300"]
  /\ pc' = [pc EXCEPT ![t] = "RELEASE"]
  /\ live' = live - 1
  /\ UNCHANGED <<tenantMax, poolSize, active, idle, reaped, upConn, now, tenantOf, held, releases>>
  /\ UNCHANGED <<handlerVars, otherVars>>

\* pool_checkout_timeout expires for a waiting task: ErrorResponse 53300
CheckoutTimeout(t) ==
  /\ pc[t] = "WAITING"
  /\ result' = [result EXCEPT ![t] = "53300"]
  /\ pc' = [pc EXCEPT ![t] = "RELEASE"]
  /\ UNCHANGED <<tenantMax, poolSize, active, live, idle, reaped, upConn, now, tenantOf, held, releases>>
  /\ UNCHANGED <<handlerVars, otherVars>>

\* the task is cancelled before it holds a connection
CancelWaiting(t) ==
  /\ pc[t] \in {"CHECKOUT", "WAITING"}
  /\ pc' = [pc EXCEPT ![t] = "RELEASE"]
  /\ UNCHANGED <<tenantMax, poolSize, active, live, idle, reaped, upConn, now, tenantOf, held, result, releases>>
  /\ UNCHANGED <<handlerVars, otherVars>>

\* INJECTING: the injection query sets the tenant's context on the session
Inject(t) ==
  /\ pc[t] = "INJECTING"
  /\ upConn' = [upConn EXCEPT ![held[t]].ctx = tenantOf[t]]
  /\ pc' = [pc EXCEPT ![t] = "PIPE"]
  /\ UNCHANGED <<tenantMax, poolSize, active, live, idle, reaped, now, tenantOf, held, result, releases>>
  /\ UNCHANGED <<handlerVars, otherVars>>

\* a checkin that returns the connection to the idle queue as the client left it
ClientEnds_noCleanup(t) ==
  /\ pc[t] = "PIPE"
  /\ idle' = Append(idle, [id |-> held[t], last_used |-> now])
  /\ held' = [held EXCEPT ![t] = 0]
  /\ pc' = [pc EXCEPT ![t] = "RELEASE"]
  /\ UNCHANGED <<tenantMax, poolSize, active, live, reaped, upConn, now, tenantOf, result, releases>>
  /\ UNCHANGED <<handlerVars, otherVars>>

\* PIPE ends cleanly with a healthy upstream: the checkin starts with ROLLBACK
ClientEnds(t) ==
  /\ pc[t] = "PIPE"
  /\ pc' = [pc EXCEPT ![t] = "ROLLBACK"]
  /\ UNCHANGED <<tenantMax, poolSize, active, live, idle, reaped, upConn, now, tenantOf, held, result, releases>>
  /\ UNCHANGED <<handlerVars, otherVars>>

\* ROLLBACK was acknowledged with ReadyForQuery: DISCARD ALL is sent
RollbackAck(t) ==
  /\ pc[t] = "ROLLBACK"
  /\ pc' = [pc EXCEPT ![t] = "DISCARD"]
  /\ UNCHANGED <<tenantMax, poolSize, active, live, idle, reaped, upConn, now, tenantOf, held, result, releases>>
  /\ UNCHANGED <<handlerVars, otherVars>>

\* DISCARD ALL was acknowledged with ReadyForQuery: the session is reset and
\* the connection is pushed to the idle queue with last_used = now
DiscardAck(t) ==
  /\ pc[t] = "DISCARD"
  /\ upConn' = [upConn EXCEPT ![held[t]].ctx = NoCtx]
  /\ idle' = Append(idle, [id |-> held[t], last_used |-> now])
  /\ held' = [held EXCEPT ![t] = 0]
  /\ pc' = [pc EXCEPT ![t] = "RELEASE"]
  /\ UNCHANGED <<tenantMax, poolSize, active, live, reaped, now, tenantOf, result, releases>>
  /\ UNCHANGED <<handlerVars, otherVars>>

\* a discard that closes the connection and leaves live-count as it is
Discard_keepsLive(t) ==
  /\ upConn' = [upConn EXCEPT ![held[t]].st = "closed"]
  /\ live' = live
  /\ held' = [held EXCEPT ![t] = 0]
  /\ pc' = [pc EXCEPT ![t] = "RELEASE"]
  /\ UNCHANGED <<tenantMax, poolSize, active, idle, reaped, now, tenantOf, result, releases>>
  /\ UNCHANGED <<handlerVars, otherVars>>

\* the connection a task holds is discarded: closed, live-count decremented
Discard(t) ==
  /\ upConn' = [upConn EXCEPT ![held[t]].st = "closed"]
  /\ live' = live - 1
  /\ held' = [held EXCEPT ![t] = 0]
  /\ pc' = [pc EXCEPT ![t] = "RELEASE"]
  /\ UNCHANGED <<tenantMax, poolSize, active, idle, reaped, now, tenantOf, result, releases>>
  /\ UNCHANGED <<handlerVars, otherVars>>

\* the session fails before its clean end (an error, an unhealthy upstream,
\* cancellation)
SessionFails(t) ==
  /\ pc[t] \in {"INJECTING", "PIPE"}
  /\ Discard(t)

\* a cleanup step fails or the checkin is cancelled
CheckinFails(t) ==
  /\ pc[t] \in {"ROLLBACK", "DISCARD"}
  /\ Discard(t)

\* the idle reaper, under the bucket's lock: remove the connections whose
\* last_used + pool_idle_timeout < now and decrement live-count for each
Expired(e) == e.last_used + poolIdleTimeout < now
Fresh(e) == ~Expired(e)
ReapRemove ==
  /\ \E i \in 1..Len(idle) : Expired(idle[i])
  /\ idle' = SelectSeq(idle, Fresh)
  /\ live' = live - Len(SelectSeq(idle, Expired))
  /\ reaped' = reaped \cup {idle[i].id : i \in {j \in 1..Len(idle) : Expired(idle[j])}}
  /\ UNCHANGED <<tenantMax, poolSize, active, upConn, now, pc, tenantOf, held, result, releases>>
  /\ UNCHANGED <<handlerVars, otherVars>>

\* the reaper closes, outside the lock, a connection it removed
ReapClose ==
  /\ \E k \in reaped :
       /\ upConn' = [upConn EXCEPT ![k].st = "closed"]
       /\ reaped' = reaped \ {k}
  /\ UNCHANGED <<tenantMax, poolSize, active, live, idle, now, pc, tenantOf, held, result, releases>>
  /\ UNCHANGED <<handlerVars, otherVars>>

\* time passes
Tick ==
  /\ now < MaxTime
  /\ now' = now + 1
  /\ UNCHANGED <<tenantMax, poolSize, active, live, idle, reaped, upConn, pc, tenantOf, held, result, releases>>
  /\ UNCHANGED <<handlerVars, otherVars>>

PoolInit ==
  /\ contextVariables = SubSeq(VarNames, 1, 1)
  /\ ConnInit
  /\ tenantMax \in 1..MaxTenantLimit
  /\ poolSize \in 1..MaxPoolSize
  /\ active = [tn \in Tenants |-> 0]
  /\ live = 0
  /\ idle = <<>>
  /\ reaped = {}
  /\ upConn = [k \in Tasks |-> [st |-> "absent", ctx |-> NoCtx]]
  /\ now = 0
  /\ pc = [t \in Tasks |-> "TENANT_CONNECT"]
  /\ tenantOf = [t \in Tasks |-> "t1"]
  /\ held = [t \in Tasks |-> 0]
  /\ result = [t \in Tasks |-> "none"]
  /\ releases = [t \in Tasks |-> 0]
  /\ OtherUnused

PoolNext ==
  \/ \E t \in Tasks : Admit(t)
  \/ \E t \in Tasks : Checkout(t)
  \/ \E t \in Tasks : OpenDone(t)
  \/ \E t \in Tasks : CheckoutTimeout(t)
  \/ \E t \in Tasks : CancelWaiting(t)
  \/ \E t \in Tasks : Inject(t)
  \/ \E t \in Tasks : ClientEnds(t)
  \/ \E t \in Tasks : RollbackAck(t)
  \/ \E t \in Tasks : DiscardAck(t)
  \/ \E t \in Tasks : SessionFails(t)
  \/ \E t \in Tasks : CheckinFails(t)
  \/ \E t \in Tasks : Release(t)
  \/ ReapRemove
  \/ ReapClose
  \/ Tick

PoolSpec == PoolInit /\ [][PoolNext]_vars

\* the tasks of tenant tn that have been admitted and have not yet ended
Admitted(tn) == {t \in Tasks : tenantOf[t] = tn /\ pc[t] \in GuardHeld}

\* a step in which task t's admission is decided
AdmitStep(t) == pc[t] = "TENANT_CONNECT" /\ pc'[t] # "TENANT_CONNECT"

C16_GuardReleasedOnce ==
  /\ \A t \in Tasks :
       /\ releases[t] <= 1
       /\ pc[t] \in GuardHeld \cup {"TENANT_CONNECT"} => releases[t] = 0
       /\ pc[t] = "DONE" => releases[t] = IF result[t] = "Limit" THEN 0 ELSE 1
  /\ \A tn \in Tenants : active[tn] = Cardinality(Admitted(tn))

\* one connection ended by a checkout timeout and another after a clean
\* checkin, each with its guard released
C16_Witness ==
  /\ \E t \in Tasks : pc[t] = "DONE" /\ result[t] = "53300" /\ releases[t] = 1
  /\ \E t \in Tasks : pc[t] = "DONE" /\ result[t] = "none" /\ releases[t] = 1
  /\ idle # <<>>

\* the ids of the connections in the idle queue
IdleIds == {idle[i].id : i \in 1..Len(idle)}

\* a step that ends task t's checkin
CheckinEnds(t) == pc[t] \in {"ROLLBACK", "DISCARD"} /\ pc'[t] \notin {"ROLLBACK", "DISCARD"}

\* C17: in pool mode, whatever checkouts, successful or failed checkins and
\* reaper runs have happened, the bucket's live-count equals the length of
\* its idle queue plus the number of connections checked out; the idle queue
\* holds open connections that no task holds, each once; and the step that
\* ends the checkin of a cleanly ended client leaves its connection either
\* at the tail of the idle queue with last_used = now or closed.
C17_PoolAccounting ==
  /\ [](/\ live = Len(idle) + Cardinality({t \in Tasks : pc[t] \in CheckedOut})
        /\ Cardinality(IdleIds) = Len(idle)
        /\ \A i \in 1..Len(idle) :
             /\ upConn[idle[i].id].st = "open"
             /\ idle[i].last_used <= now
             /\ \A t \in Tasks : held[t] # idle[i].id)
  /\ [][\A t \in Tasks :
          CheckinEnds(t) =>
            \/ /\ idle' # <<>>
               /\ idle'[Len(idle')] = [id |-> held[t], last_used |-> now']
            \/ upConn'[held[t]].st = "closed"]_vars

\* after a clean checkin the reaper has removed the expired connection, which
\* it has yet to close, and a task is opening a connection in its place
C17_Witness ==
  /\ reaped # {}
  /\ \E t \in Tasks : pc[t] = "OPENING"
  /\ live = 1

\* C18: a pooled upstream connection enters the idle queue only from a checkin
\* whose ROLLBACK and then DISCARD ALL were each acknowledged, in that order;
\* a checkin that fails or is cancelled closes the connection and decrements
\* live-count; so an idle connection carries no injected context, a connection
\* handed to a client carries none before that client's own injection, and a
\* piping client's connection carries that client's context only.
C18_CleanBeforeIdle ==
  /\ [](/\ \A i \in 1..Len(idle) : upConn[idle[i].id].ctx = NoCtx
        /\ \A t \in Tasks :
             /\ pc[t] = "INJECTING" => upConn[held[t]].ctx = NoCtx
             /\ pc[t] = "PIPE" => upConn[held[t]].ctx = tenantOf[t])
  /\ [][/\ Len(idle') > Len(idle) =>
             \E t \in Tasks :
               /\ pc[t] = "DISCARD"
               /\ idle' = Append(idle, [id |-> held[t], last_used |-> now])
        /\ \A t \in Tasks :
             /\ (pc'[t] = "DISCARD" /\ pc[t] # "DISCARD") => pc[t] = "ROLLBACK"
             /\ (CheckinEnds(t) /\ Len(idle') <= Len(idle)) =>
                  /\ upConn'[held[t]].st = "closed"
                  /\ live' = live - 1]_vars

\* a client of one tenant is piping on a connection that an earlier client of
\* the other tenant opened and returned to the idle queue
C18_Witness ==
  \E t \in Tasks :
    /\ pc[t] = "PIPE"
    /\ held[t] # t
    /\ tenantOf[held[t]] # tenantOf[t]
    /\ pc[held[t]] = "DONE"
    /\ upConn[held[t]].ctx = tenantOf[t]

\* C19: in a pool bucket, under any interleaving of checkouts, checkins and
\* reaper runs, live-count never exceeds pool_size, and a step that starts
\* opening a new upstream connection is taken only when the idle queue is
\* empty and live-count is below pool_size, and increments live-count by one.
C19_PoolCapacity ==
  /\ [](live <= poolSize)
  /\ [][\A t \in Tasks :
          (pc'[t] = "OPENING" /\ pc[t] # "OPENING") =>
            /\ idle = <<>>
            /\ live < poolSize
            /\ live' = live + 1]_vars

\* the bucket is full, with its connection checked out, while another task
\* waits for one
C19_Witness ==
  /\ live = poolSize
  /\ \E t \in Tasks : pc[t] = "WAITING"
  /\ \E t \in Tasks : pc[t] \in {"OPENING", "INJECTING", "PIPE"}

\* a step that takes task t out of its wait for a connection
WaitEnds(t) == pc[t] = "WAITING" /\ pc'[t] # "WAITING"

\* C20: a checkout waits only when the bucket is full (idle queue empty,
\* live-count at pool_size); a waiting checkout whose timeout expires fails
\* the client with SQLSTATE 53300, leaves live-count and the idle queue as
\* they are, holds no connection and never checks out again; a waiting
\* checkout that finds a checked-in connection before its timeout is handed
\* the head of the idle queue and goes on to injection without an error.
C20_CheckoutTimeout ==
  /\ [](\A t \in Tasks :
          result[t] = "53300" => (held[t] = 0 /\ pc[t] \in {"RELEASE", "DONE"}))
  /\ [][\A t \in Tasks :
          /\ (pc'[t] = "WAITING" /\ pc[t] # "WAITING") =>
               (idle = <<>> /\ live >= poolSize /\ live' = live)
          /\ (result'[t] = "53300" /\ result[t] # "53300") =>
               /\ pc[t] = "WAITING"
               /\ pc'[t] = "RELEASE"
               /\ live' = live
               /\ idle' = idle
               /\ upConn' = upConn
          /\ (WaitEnds(t) /\ pc'[t] # "RELEASE") =>
               /\ result'[t] = "none"
               /\ IF idle # <<>>
                    THEN /\ pc'[t] = "INJECTING"
                         /\ held'[t] = Head(idle).id
                         /\ idle' = Tail(idle)
                         /\ live' = live
                    ELSE /\ pc'[t] = "OPENING"
                         /\ live < poolSize]_vars

\* a task that waited for the full bucket has failed with 53300 while the
\* bucket's connection is still checked out by the other task
C20_Witness ==
  \E t, o \in Tasks :
    /\ result[t] = "53300"
    /\ pc[t] = "DONE"
    /\ held[t] = 0
    /\ pc[o] = "PIPE"
    /\ live = poolSize


\* ───────────── tenant registry: the rate window of admit() ────────────────
\* The registry alone, with a tenant_rate_limit configured: admission
\* attempts arrive for either tenant at any instant, and guards are dropped.

\* the fixed window is one second, the unit of the clock
rateWindow == 1

\* admit step 2: the tenant's state is created on first use with the window
\* starting now and count 0; if now has advanced past the window the count
\* is reset to 0, otherwise it is incremented
evalRateWindow(w, t) ==
  LET w0 == IF w.start < 0 THEN [start |-> t, count |-> 0] ELSE w IN
  IF t >= w0.start + rateWindow
  THEN [start |-> t, count |-> 0]
  ELSE [start |-> w0.start, count |-> w0.count + 1]

\* admit step 2, continued: Rate when the count exceeds the configured limit
rateExceeded(w) == rateLimit > 0 /\ w.count > rateLimit

\* admit(tenant, now) with no allow or deny list: rate window, then
\* max-concurrent, under the tenant's lock
Attempt(tn) ==
  /\ attempts < MaxAttempts
  /\ attempts' = attempts + 1
  /\ LET w == evalRateWindow(window[tn], now)
         r == admit(active, tn)
     IN /\ window' = [window EXCEPT ![tn] = w]
        /\ IF rateExceeded(w)
             THEN /\ verdict' = "Rate"
                  /\ UNCHANGED <<active, admitTimes>>
             ELSE /\ verdict' = r.reason
                  /\ active' = r.active
                  /\ admitTimes' = IF r.ok THEN [admitTimes EXCEPT ![tn] = Append(@, now)]
                                           ELSE admitTimes
  /\ UNCHANGED <<tenantMax, poolSize, live, idle, reaped, upConn, now, pc, tenantOf,
                 held, result, releases, rateLimit>>
  /\ UNCHANGED <<handlerVars, resolverVars, libVars>>

\* an admitted connection ends: its guard decrements the active count
GuardDrop(tn) ==
  /\ active[tn] > 0
  /\ active' = [active EXCEPT ![tn] = @ - 1]
  /\ UNCHANGED <<tenantMax, poolSize, live, idle, reaped, upConn, now, pc, tenantOf,
                 held, result, releases>>
  /\ UNCHANGED <<handlerVars, otherVars>>

RegistryInit ==
  /\ contextVariables = SubSeq(VarNames, 1, 1)
  /\ ConnInit
  /\ tenantMax \in 1..MaxTenantLimit
  /\ poolSize = 0
  /\ active = [tn \in Tenants |-> 0]
  /\ live = 0
  /\ idle = <<>>
  /\ reaped = {}
  /\ upConn = [k \in Tasks |-> [st |-> "absent", ctx |-> NoCtx]]
  /\ now = 0
  /\ pc = [t \in Tasks |-> "done"]
  /\ tenantOf = [t \in Tasks |-> "t1"]
  /\ held = [t \in Tasks |-> 0]
  /\ result = [t \in Tasks |-> "none"]
  /\ releases = [t \in Tasks |-> 0]
  /\ rateLimit \in 1..MaxRate
  /\ window = [tn \in Tenants |-> [start |-> -1, count |-> 0]]
  /\ attempts = 0
  /\ admitTimes = [tn \in Tenants |-> <<>>]
  /\ verdict = "none"
  /\ ResolverUnused
  /\ LibUnused

RegistryNext ==
  \/ \E tn \in Tenants : Attempt(tn)
  \/ \E tn \in Tenants : GuardDrop(tn)
  \/ Tick

RegistrySpec == RegistryInit /\ [][RegistryNext]_vars

\* the admissions of tenant tn at instant i, that is, within the one-second
\* window that starts at i
AdmittedIn(tn, i) ==
  Len(SelectSeq(admitTimes[tn], LAMBDA x : x = i))

\* C21: with tenant_rate_limit = R, at most R new connections of one tenant
\* are admitted within any single 1-second window (the attempts beyond R in
\* the window being rejected).
C21_RateLimit ==
  \A tn \in Tenants : \A i \in 0..MaxTime : AdmittedIn(tn, i) <= rateLimit


\* ─────────────────────────── resolver engine ─────────────────────────────
\* Two resolvers r1 and r2 over every dependency shape (none, a chain, a
\* cycle, an unknown name), run by connections that share the cache.

\* the values an identity may carry and the values a resolver's row may hold
IdentityValues == {"a", "b"}
RowValues == {"x", "y"}
SqlError == "error"
DbAnswers == RowValues \cup {NoRow, SqlError}
\* the cache_ttl values of the configurations, in ticks of the clock
CacheTtls == {0, 1}
\* the bounded size of the cache
cacheCapacity == 2

\* the resolver configurations: depends_on lists of known and unknown names,
\* one parameter bound to the identity's variable or to a variable that a
\* declared dependency produces
ResolverDefs(n) ==
  {[depends_on |-> d, param |-> p, required |-> q, cache_ttl |-> l] :
     d \in {{}, Names \ {n}, {UnknownName}},
     p \in SessionVars, q \in BOOLEAN, l \in CacheTtls}
WellBound(n, def) ==
  def.param \in {IdentityVar} \cup {Out(d) : d \in def.depends_on \cap Names}
ResolverConfigs ==
  {cfg \in [Names -> UNION {ResolverDefs(n) : n \in Names}] :
     \A n \in Names : cfg[n] \in ResolverDefs(n) /\ WellBound(n, cfg[n])}

\* topological sort: place, in declaration order, a resolver whose
\* dependencies are all placed, until no resolver can be placed
RECURSIVE topoPlace(_, _)
topoPlace(cfg, placed) ==
  LET done == {placed[k] : k \in 1..Len(placed)}
      ready == {k \in 1..Len(ResolverNames) :
                  /\ ResolverNames[k] \notin done
                  /\ cfg[ResolverNames[k]].depends_on \subseteq done}
  IN IF ready = {} THEN placed
     ELSE topoPlace(cfg, Append(placed, ResolverNames[CHOOSE k \in ready : \A j \in ready : k <= j]))

\* startup: abort on an unknown dependency or a cycle, else the order
topoSort(cfg) ==
  LET placed == topoPlace(cfg, <<>>) IN
  IF \E n \in Names : ~(cfg[n].depends_on \subseteq Names)
    THEN [ok |-> FALSE, why |-> "unknown", order |-> <<>>]
  ELSE IF Len(placed) < Len(ResolverNames)
    THEN [ok |-> FALSE, why |-> "cycle", order |-> <<>>]
  ELSE [ok |-> TRUE, why |-> "none", order |-> placed]

\* the engine sorts the resolvers once at startup
LoadResolvers ==
  /\ engine = "unloaded"
  /\ LET r == topoSort(resolvers) IN
     /\ engine' = IF r.ok THEN "ready" ELSE "aborted"
     /\ order' = r.order
  /\ UNCHANGED <<resolvers, cache, sess, started>>
  /\ UNCHANGED <<contextVariables, poolVars, rateVars, libVars, connVars, cliVars, srvVars, received>>

\* a cache lookup by resolver name alone
cacheLookup_nameOnly(c, name, params, t) ==
  LET found == SelectSeq(c, LAMBDA e : e.name = name /\ t < e.exp)
  IN IF found = <<>> THEN NoEntry ELSE found[1]

\* cache lookup by (resolver name, parameter values), before expiration
cacheLookup(c, name, params, t) ==
  LET found == SelectSeq(c, LAMBDA e : e.name = name /\ e.params = params /\ t < e.exp)
  IN IF found = <<>> THEN NoEntry ELSE found[1]

\* cache insert: replaces the key's entry, evicts the oldest when full
cacheInsert(c, e) ==
  LET rest == SelectSeq(c, LAMBDA x : ~(x.name = e.name /\ x.params = e.params))
      kept == IF Len(rest) >= cacheCapacity THEN Tail(rest) ELSE rest
  IN Append(kept, e)

\* the injection map: the row's column sets the resolver's session variable
applyRow(ctx, name, row) == [ctx EXCEPT ![Out(name)] = row]

\* a connection moves on to the next resolver, or to INJECTING after the last
advance(se, ord) ==
  IF se.i >= Len(ord) THEN [se EXCEPT !.pc = "INJECTING"] ELSE [se EXCEPT !.i = @ + 1]


\* a resolver step that treats every resolver as not required
resolveOne_optional(se, c, name, def, answer, t) ==
  LET params == se.ctx[def.param]
      entry == IF def.cache_ttl = 0 THEN NoEntry ELSE cacheLookup(c, name, params, t)
      logged(kind) == [se EXCEPT !.kind = kind]
  IN IF entry # NoEntry
       THEN [sess |-> advance([logged("hit") EXCEPT
                                 !.ctx = applyRow(@, name, entry.row)], order),
             cache |-> c]
     ELSE IF answer = SqlError
       THEN [sess |-> [logged("error") EXCEPT
                         !.pc = "FAILED", !.err = [code |-> "server", resolver |-> name]],
             cache |-> c]
     ELSE IF answer = NoRow
       THEN [sess |-> advance(logged("norow"), order),
             cache |-> c]
     ELSE [sess |-> advance([logged("row") EXCEPT
                               !.ctx = applyRow(@, name, answer)], order),
           cache |-> IF def.cache_ttl = 0 THEN c
                     ELSE cacheInsert(c, [name |-> name, params |-> params, row |-> answer,
                                          exp |-> t + def.cache_ttl])]

\* one resolver of a connection in RESOLVING: build the parameter, look up
\* the cache (skipped when cache_ttl = 0), on a miss query the server, whose
\* answer is a row, no row or an error; fail on no row when required, insert
\* the row on a miss, apply the injection map
resolveOne(se, c, name, def, answer, t) ==
  LET params == se.ctx[def.param]
      entry == IF def.cache_ttl = 0 THEN NoEntry ELSE cacheLookup(c, name, params, t)
      logged(kind) == [se EXCEPT !.kind = kind]
  IN IF entry # NoEntry
       THEN [sess |-> advance([logged("hit") EXCEPT
                                 !.ctx = applyRow(@, name, entry.row)], order),
             cache |-> c]
     ELSE IF answer = SqlError
       THEN [sess |-> [logged("error") EXCEPT
                         !.pc = "FAILED", !.err = [code |-> "server", resolver |-> name]],
             cache |-> c]
     ELSE IF answer = NoRow
       THEN [sess |-> IF def.required
                        THEN [logged("norow") EXCEPT
                                !.pc = "FAILED", !.err = [code |-> "28000", resolver |-> name]]
                        ELSE advance(logged("norow"), order),
             cache |-> c]
     ELSE [sess |-> advance([logged("row") EXCEPT
                               !.ctx = applyRow(@, name, answer)], order),
           cache |-> IF def.cache_ttl = 0 THEN c
                     ELSE cacheInsert(c, [name |-> name, params |-> params, row |-> answer,
                                          exp |-> t + def.cache_ttl])]

\* a client is authenticated with an identity and enters RESOLVING, once
\* the connection before it has left RESOLVING
StartSession ==
  /\ engine = "ready"
  /\ sess.pc \in {"IDLE", "INJECTING", "FAILED"}
  /\ started < MaxSessions
  /\ started' = started + 1
  /\ \E v \in IdentityValues :
       sess' = [NewSession EXCEPT !.pc = "RESOLVING", !.i = 1,
                                  !.ctx = [@ EXCEPT ![IdentityVar] = v]]
  /\ UNCHANGED <<resolvers, engine, order, cache>>
  /\ UNCHANGED <<contextVariables, poolVars, rateVars, libVars, connVars, cliVars, srvVars, received>>

\* RESOLVING: the connection executes its next resolver
Resolve ==
  /\ sess.pc = "RESOLVING"
  /\ \E answer \in DbAnswers :
       LET name == order[sess.i]
           r == resolveOne(sess, cache, name, resolvers[name], answer, now)
       IN /\ sess' = r.sess
          /\ cache' = r.cache
  /\ UNCHANGED <<resolvers, engine, order, started>>
  /\ UNCHANGED <<contextVariables, poolVars, rateVars, libVars, connVars, cliVars, srvVars, received>>

ResolverInit ==
  /\ contextVariables = SubSeq(VarNames, 1, 1)
  /\ ConnInit
  /\ PoolUnused
  /\ RateUnused
  /\ LibUnused
  /\ resolvers \in ResolverConfigs
  /\ engine = "unloaded"
  /\ order = <<>>
  /\ cache = <<>>
  /\ sess = NewSession
  /\ started = 0

ResolverNext ==
  \/ LoadResolvers
  \/ StartSession
  \/ Resolve
  \/ Tick

ResolverSpec == ResolverInit /\ [][ResolverNext]_vars


\* the step is the connection's execution of a resolver
ResolveStep == sess.pc = "RESOLVING" /\ sess' # sess
\* the resolver that step executes
Current == order[sess.i]

\* C22: when a resolver returns zero rows the connection fails if and only
\* if the resolver is required: for a required resolver the connection is
\* closed with an ErrorResponse (28000) naming the resolver and never reaches
\* INJECTING; for a resolver that is not required the connection proceeds,
\* without an error, to the next resolver or to INJECTING with the
\* resolver's variable left unset.
C22_ZeroRows ==
  /\ [][(ResolveStep /\ sess'.kind = "norow") =>
          IF resolvers[Current].required
            THEN /\ sess'.pc = "FAILED"
                 /\ sess'.err = [code |-> "28000", resolver |-> Current]
            ELSE /\ sess'.pc = IF sess.i < Len(order) THEN "RESOLVING" ELSE "INJECTING"
                 /\ sess'.err = NoErr
                 /\ sess'.ctx = sess.ctx
                 /\ sess'.ctx[Out(Current)] = Unset]_vars
  /\ [][(sess.pc = "FAILED" /\ sess'.pc # "FAILED") =>
          (started' = started + 1 /\ sess'.i = 1 /\ sess'.kind = "none")]_vars

\* r1, not required, returned no row and left app.o1 unset; r2, required,
\* then returned no row and the connection was closed with 28000 naming r2
C22_Witness ==
  /\ order = ResolverNames
  /\ ~resolvers["r1"].required
  /\ resolvers["r2"].required
  /\ sess.pc = "FAILED"
  /\ sess.kind = "norow"
  /\ sess.err = [code |-> "28000", resolver |-> "r2"]
  /\ sess.ctx[Out("r1")] = Unset


\* where resolver n stands in the execution order, 0 if it does not
Position(n) ==
  IF \E k \in 1..Len(order) : order[k] = n
    THEN CHOOSE k \in 1..Len(order) : order[k] = n
    ELSE 0
\* the configuration names a dependency that is no resolver
UnknownDependency == \E n \in Names : ~(resolvers[n].depends_on \subseteq Names)
\* some resolver depends on itself through a chain of depends_on names
DependencyCycle ==
  \E p \in SeqsUpTo(Names, Len(ResolverNames) + 1) :
    /\ Len(p) >= 2
    /\ p[1] = p[Len(p)]
    /\ \A k \in 1..(Len(p) - 1) : p[k + 1] \in resolvers[p[k]].depends_on
\* the order runs every resolver once, each after all it depends on
OrderRespectsDependencies ==
  /\ Len(order) = Len(ResolverNames)
  /\ \A n \in Names : Position(n) > 0
  /\ \A n \in Names : \A d \in resolvers[n].depends_on : Position(d) < Position(n)
\* startup accepts a configuration unless it has a cycle or an unknown name
StartupVerdict ==
  /\ engine = "aborted" => (DependencyCycle \/ UnknownDependency)
  /\ engine = "ready" => (~DependencyCycle /\ ~UnknownDependency /\ OrderRespectsDependencies)

\* C23: for every accepted resolver configuration the execution order
\* places every resolver after all resolvers it depends on, and a
\* configuration with a dependency cycle or an unknown dependency name is
\* rejected at startup; run in that order, no resolver reads a session
\* variable that has not been set.
C23_DependencyOrder ==
  /\ [](StartupVerdict)
  /\ [][ResolveStep => sess.ctx[resolvers[Current].param] # Unset]_vars


\* the entries of the cache
Entries(c) == {c[k] : k \in 1..Len(c)}

\* C24: a resolver-cache hit yields exactly the session-variable value that
\* the miss which populated the entry injected: an entry enters the cache
\* only from a miss that got a row, under that resolver's name and parameter
\* value, holding the value the miss injected and expiring cache_ttl after
\* it; a hit serves an entry of the same resolver name and the same parameter
\* value, before its expiration, and injects the entry's value; a resolver
\* with cache_ttl = 0 is never served from the cache and never enters it.
C24_CacheHit ==
  /\ [](/\ Len(cache) <= cacheCapacity
        /\ \A j, k \in 1..Len(cache) :
             (cache[j].name = cache[k].name /\ cache[j].params = cache[k].params) => j = k
        /\ \A e \in Entries(cache) : resolvers[e.name].cache_ttl > 0 /\ e.exp <= now + resolvers[e.name].cache_ttl)
  /\ [][(ResolveStep /\ sess'.kind = "hit") =>
          /\ resolvers[Current].cache_ttl > 0
          /\ cache' = cache
          /\ \E e \in Entries(cache) :
               /\ e.name = Current
               /\ e.params = sess.ctx[resolvers[Current].param]
               /\ now < e.exp
               /\ sess'.ctx = [sess.ctx EXCEPT ![Out(Current)] = e.row]]_vars
  /\ [][\A e \in Entries(cache') \ Entries(cache) :
          /\ ResolveStep
          /\ sess'.kind = "row"
          /\ e.name = Current
          /\ e.params = sess.ctx[resolvers[Current].param]
          /\ e.row = sess'.ctx[Out(Current)]
          /\ e.exp = now + resolvers[Current].cache_ttl]_vars

\* the second connection, with the identity of the first, was served r2's
\* value from the entry the first connection's miss populated, while r1,
\* with cache_ttl = 0, was queried again
C24_Witness ==
  /\ started = 2
  /\ order = ResolverNames
  /\ resolvers["r1"].cache_ttl = 0
  /\ resolvers["r2"].param = Out("r1")
  /\ sess.kind = "hit"
  /\ sess.pc = "INJECTING"
  /\ \E e \in Entries(cache) :
       e.name = "r2" /\ e.params = sess.ctx[Out("r1")] /\ e.row = sess.ctx[Out("r2")]


\* ─────────────── startup-phase requests and the startup codec ─────────────
\* a 'data' event of the client socket, and the frames the handler then
\* holds: its buffer followed by the chunk delivered
DataStep == Len(c2p') < Len(c2p)
Arrived == clientFramer \o SubSeq(c2p, 1, Len(c2p) - Len(c2p'))
\* the handler, in WAIT_STARTUP, frames a startup-phase frame of this code
FramesCode(code) ==
  /\ state = "WAIT_STARTUP"
  /\ DataStep
  /\ Head(Arrived).kind = "startup"
  /\ Head(Arrived).code = code
\* the frame is answered with the single byte 'N' and nothing else happens
DeniedWithN ==
  /\ toClient' = Append(toClient, SSL_DENY)
  /\ state' = "WAIT_STARTUP"
  /\ client' = "open"
  /\ opens' = opens
  /\ upSock' = upSock
  /\ toUpstream' = toUpstream
  /\ clientFramer' = Tail(Arrived)
\* the handler of a connection that has received nothing yet, given msg
Classified(msg) ==
  handleStartupData([Conn EXCEPT !.clientFramer = <<>>, !.toClient = <<>>], <<msg>>)
\* the step treats msg as a connection without an earlier request does
ClassifiedNormally(msg) ==
  LET f == Classified(msg) IN
  /\ state' = f.state
  /\ toClient' = toClient \o f.toClient
  /\ client' = f.client
  /\ actualUser' = f.actualUser
  /\ contextValues' = f.contextValues
  /\ isBypass' = f.isBypass
  /\ startupMsg' = f.startupMsg
  /\ upSock' = f.upSock
  /\ opens' = opens + f.opens
  /\ toUpstream' = toUpstream

\* C25: an SSLRequest received in WAIT_STARTUP is answered with exactly one
\* byte 'N', opens no upstream connection and leaves the handler in
\* WAIT_STARTUP; the startup message the handler reads after the denial is
\* classified as on a connection that sent no SSLRequest.
C25_SslDenied ==
  /\ [][FramesCode(SSL_REQUEST_CODE) => DeniedWithN]_vars
  /\ [][((FramesCode(PROTOCOL_VERSION_30) \/ FramesCode(PROTOCOL_VERSION_32))
           /\ HasType(toClient, "SSL_DENY")) =>
          ClassifiedNormally(Head(Arrived))]_vars

\* after the denial of its SSLRequest the client's StartupMessage was
\* accepted as a tenant connection and the upstream connection is opening
C25_Witness ==
  /\ toClient = <<SSL_DENY>>
  /\ state = "CONNECTING"
  /\ opens = 1
  /\ Accepted
  /\ actualUser = <<"a">>


\* C26: a GSSAPI encryption request (code 80877104) received in
\* WAIT_STARTUP is treated like an SSLRequest: the proxy replies with the
\* single byte 'N', sends no ErrorResponse, and stays in WAIT_STARTUP
\* awaiting the real startup message.
C26_GssDenied == [][FramesCode(GSS_REQUEST_CODE) => DeniedWithN]_vars


\* ───────────────────────── the startup framer, byte by byte ──────────────
\* Buffer.writeInt32BE / Buffer.readInt32BE: a signed 32-bit integer as the
\* four bytes of its two's complement, most significant first (offset counts
\* bytes from 0)
writeInt32BE(n) ==
  << (n \div 2^24) % 256, (n \div 2^16) % 256, (n \div 2^8) % 256, n % 256 >>
readInt32BE(buf, offset) ==
  LET top == buf[offset + 1] IN
  (IF top >= 128 THEN top - 256 ELSE top) * 2^24
    + buf[offset + 2] * 2^16 + buf[offset + 3] * 2^8 + buf[offset + 4]

\* MessageFramer.nextStartupMessage: the message it returns (Null for null)
\* and the buffer it leaves
nextStartupMessage(buf) ==
  IF Len(buf) < 4 THEN [msg |-> Null, buffer |-> buf]
  ELSE LET length == readInt32BE(buf, 0) IN
       IF length < 4 \/ length > 10240 THEN [msg |-> Null, buffer |-> buf]
       ELSE IF Len(buf) < length THEN [msg |-> Null, buffer |-> buf]
       ELSE [msg |-> SubSeq(buf, 1, length),
             buffer |-> SubSeq(buf, length + 1, Len(buf))]

\* What the inspection helpers and parseStartupMessage read in a message of
\* the byte streams below: the Int32 at offset 4 when the message has eight
\* bytes (isSSLRequest and isCancelRequest answer false for a shorter one),
\* and no key/value pair, every byte from offset 8 on being 0.
FrameOf(bytes) ==
  StartupFrame(IF Len(bytes) >= 8 THEN readInt32BE(bytes, 4) ELSE 0, <<>>)

\* the lengths a client declares in its first four bytes, and what it sends
\* after them: nothing, a request code, or a version and the terminator
DeclaredLengths == {-1, 0, 3, 4, 7, 8, 9, 10240, 10241}
Bodies ==
  { <<>>, writeInt32BE(SSL_REQUEST_CODE), writeInt32BE(CANCEL_REQUEST_CODE),
    writeInt32BE(PROTOCOL_VERSION_30) \o <<0>> }

\* client.on("data") in WAIT_STARTUP with the next n bytes of the stream:
\* handleStartupData pushes them, asks the framer for a startup message and
\* returns when there is none; otherwise it classifies the message
ClientBytes(n) ==
  /\ state = "WAIT_STARTUP"
  /\ client = "open"
  /\ n \in 1..Len(rawStream)
  /\ rawStream' = SubSeq(rawStream, n + 1, Len(rawStream))
  /\ LET r == nextStartupMessage(rawBuffer \o SubSeq(rawStream, 1, n)) IN
     /\ rawBuffer' = r.buffer
     /\ IF r.msg = Null THEN UNCHANGED connVars
        ELSE Install(handleStartupData(Conn, <<FrameOf(r.msg)>>))
  /\ UNCHANGED <<contextVariables, poolVars, rateVars, resolverVars, codecVars,
                 configVars, cliVars, srvVars, received, framed, pipeVars>>

FramerInit ==
  /\ contextVariables = SubSeq(VarNames, 1, 1)
  /\ ConnInit
  /\ PoolUnused
  /\ RateUnused
  /\ ResolverUnused
  /\ rawStream \in {writeInt32BE(l) \o b : l \in DeclaredLengths, b \in Bodies}
  /\ rawBuffer = <<>>
  /\ framed = <<>>
  /\ PipeUnused
  /\ wireFrame = NoFrame
  /\ rebuilt = NoFrame
  /\ reparsed = <<>>
  /\ fileValues = <<>>
  /\ envValues = <<>>
  /\ cliArgs = <<>>
  /\ config = NoConfig

FramerNext == \E n \in 1..Len(rawStream) : ClientBytes(n)
FramerSpec == FramerInit /\ [][FramerNext]_vars

\* a data event in the startup phase, the framer's buffer once the event's
\* bytes are pushed, and the length its first four bytes declare
ByteStep == state = "WAIT_STARTUP" /\ Len(rawStream') < Len(rawStream)
Pushed == rawBuffer \o SubSeq(rawStream, 1, Len(rawStream) - Len(rawStream'))
Declared == readInt32BE(Pushed, 0)
PartialFrameKept ==
  (ByteStep /\ Len(Pushed) >= 4 /\ Declared \in 8..10240 /\ Len(Pushed) < Declared)
    => (rawBuffer' = Pushed /\ UNCHANGED connVars)

\* C27: once the first four bytes of the client stream are buffered and
\* declare a length below 8 or above 10240, the data event that brought them
\* ends with the connection closed; and a data event that leaves a frame of
\* a legal declared length incomplete yields no message, keeps every
\* buffered byte and leaves the connection as it was.
C27_MalformedLength ==
  /\ [][(ByteStep /\ Len(Pushed) >= 4 /\ (Declared < 8 \/ Declared > 10240))
          => (state' = "CLOSED" /\ client' # "open")]_vars
  /\ [][PartialFrameKept]_vars


\* ───────────────────────── the startup codec on its own ──────────────────
\* Legal startup frames: a 3.x protocol version and up to MaxParams
\* key/value pairs with non-empty keys.  A frame is written as its version
\* and its pairs in wire order; the length field and the terminating null
\* are determined by them.
ParamKeys == {"user", "database"}
ParamValues == { <<"a">>, <<"d">> }
ParamLists ==
  UNION { [1..n -> {<<k, v>> : k \in ParamKeys, v \in ParamValues}] : n \in 0..MaxParams }
LegalFrames ==
  { StartupFrame(v, ps) : v \in {PROTOCOL_VERSION_30, PROTOCOL_VERSION_32}, ps \in ParamLists }

\* build(parse(frame)): the frame a caller gets who parses a frame and
\* builds a frame from the parameters found
RoundTrip ==
  /\ wireFrame # NoFrame
  /\ rebuilt = NoFrame
  /\ rebuilt' = buildStartupMessage(parseStartupMessage(wireFrame).params)
  /\ UNCHANGED <<wireFrame, reparsed>>
  /\ UNCHANGED <<handlerVars, poolVars, rateVars, resolverVars, framerVars, configVars>>

\* parse(build(user -> X, rest)): the parameters found in the frame built
\* from the frame's parameter map with `user` set to X, kept with X
Rewrite(X) ==
  /\ wireFrame # NoFrame
  /\ reparsed = <<>>
  /\ reparsed' =
       <<X, parseStartupMessage(
              buildStartupMessage(
                MapSet(parseStartupMessage(wireFrame).params, "user", X))).params>>
  /\ UNCHANGED <<wireFrame, rebuilt>>
  /\ UNCHANGED <<handlerVars, poolVars, rateVars, resolverVars, framerVars, configVars>>

CodecInit ==
  /\ contextVariables = SubSeq(VarNames, 1, 1)
  /\ ConnInit
  /\ PoolUnused
  /\ RateUnused
  /\ ResolverUnused
  /\ rawStream = <<>>
  /\ rawBuffer = <<>>
  /\ framed = <<>>
  /\ PipeUnused
  /\ wireFrame \in LegalFrames
  /\ rebuilt = NoFrame
  /\ reparsed = <<>>
  /\ fileValues = <<>>
  /\ envValues = <<>>
  /\ cliArgs = <<>>
  /\ config = NoConfig

CodecNext == RoundTrip \/ (\E X \in ParamValues : Rewrite(X))
CodecSpec == CodecInit /\ [][CodecNext]_vars

\* the parameter map of the frame at hand, and what the rewrite kept of it
ParsedParams == parseStartupMessage(wireFrame).params
RewriteKeepsRest ==
  reparsed # <<>> =>
    LET X == reparsed[1]
        found == reparsed[2]
    IN
    /\ MapGet(found, "user") = X
    /\ \A k \in ParamKeys \ {"user"} : MapGet(found, k) = MapGet(ParsedParams, k)
    /\ \A j \in 1..Len(found) : found[j][1] # "user" => MapHas(ParsedParams, found[j][1])

\* C28: for every legal startup frame, the frame built from the parameters
\* parsed out of it is the frame itself; and the frame built from its
\* parameter map with `user` set to X parses to a map in which `user` is X
\* and every other parameter has the value it had.
C28_RoundTrip ==
  /\ rebuilt # NoFrame => rebuilt = wireFrame
  /\ RewriteKeepsRest


\* ───────────────────────── the startup message sent upstream ─────────────
\* the first thing written upstream for a tenant connection
UpstreamStartup == toUpstream[1]
SameParamsButUser ==
  /\ Len(UpstreamStartup.params) = Len(startupSeen.params)
  /\ \A j \in 1..Len(startupSeen.params) :
       /\ UpstreamStartup.params[j][1] = startupSeen.params[j][1]
       /\ UpstreamStartup.params[j][2] =
            IF startupSeen.params[j][1] = "user" THEN actualUser
            ELSE startupSeen.params[j][2]

\* C29: the startup message written upstream for a tenant connection has the
\* protocol version of the client's startup message and the client's
\* parameters in the client's order, each with the client's value except
\* `user`, whose value is the effective role.
C29_UpstreamStartup ==
  (Accepted /\ toUpstream # <<>>) =>
    /\ UpstreamStartup.kind = "startup"
    /\ UpstreamStartup.code = startupSeen.code
    /\ SameParamsButUser


\* ───────────────────────── configuration loading ─────────────────────────
\* Strings are sequences of characters.  The options kept: one validated
\* number, one validated enumeration, one free string.
DEFAULTS ==
  [listenPort |-> 6432, logLevel |-> <<"i", "n", "f", "o">>,
   tenantSeparator |-> <<tenantSeparator>>]

\* KEY_MAP and ENV_MAP, restricted to the keys the sources below use
KEY_MAP ==
  [k \in {"port", "log_level", "log-level", "tenant_separator", "separator"} |->
     CASE k = "port" -> "listenPort"
       [] k \in {"log_level", "log-level"} -> "logLevel"
       [] OTHER -> "tenantSeparator"]
ENV_MAP ==
  << <<"PGVPD_PORT", "listenPort">>, <<"PGVPD_TENANT_SEPARATOR", "tenantSeparator">>,
     <<"PGVPD_LOG_LEVEL", "logLevel">> >>

\* a null keyMap: no key is renamed
NoKeyMap == [k \in {} |-> k]

\* parseInt(rawValue, 10): the number its leading decimal digits spell, NaN
\* when it has none
DecimalDigits == <<"0", "1", "2", "3", "4", "5", "6", "7", "8", "9">>
IsDigit(ch) == \E d \in 1..Len(DecimalDigits) : DecimalDigits[d] = ch
DigitValue(ch) == (CHOOSE d \in 1..Len(DecimalDigits) : DecimalDigits[d] = ch) - 1
RECURSIVE LeadingDigits(_, _)
LeadingDigits(raw, acc) ==
  IF raw = <<>> \/ ~IsDigit(Head(raw)) THEN acc
  ELSE LeadingDigits(Tail(raw), acc * 10 + DigitValue(Head(raw)))
parseInt(raw) ==
  IF raw = <<>> \/ ~IsDigit(Head(raw)) THEN [isNaN |-> TRUE, num |-> 0]
  ELSE [isNaN |-> FALSE, num |-> LeadingDigits(raw, 0)]

LogLevels == { <<"d", "e", "b", "u", "g">>, <<"i", "n", "f", "o">>, <<"w", "a", "r", "n">>,
               <<"e", "r", "r", "o", "r">> }

\* applyValues for one entry of `values`
applyValue(cfg, rawKey, rawValue, keyMap) ==
  LET configKey == IF rawKey \in DOMAIN keyMap THEN keyMap[rawKey] ELSE rawKey
  IN
  IF configKey \notin DOMAIN DEFAULTS THEN cfg
  ELSE IF configKey = "listenPort"
  THEN LET parsed == parseInt(rawValue) IN
       IF ~parsed.isNaN /\ parsed.num > 0 /\ parsed.num < 65536
       THEN [cfg EXCEPT ![configKey] = parsed.num] ELSE cfg
  ELSE IF configKey = "logLevel"
  THEN IF rawValue \in LogLevels THEN [cfg EXCEPT !.logLevel = rawValue] ELSE cfg
  ELSE [cfg EXCEPT ![configKey] = rawValue]

\* applyValues: the entries of `values` applied in order
RECURSIVE applyValues(_, _, _)
applyValues(cfg, values, keyMap) ==
  IF values = <<>> THEN cfg
  ELSE applyValues(applyValue(cfg, Head(values)[1], Head(values)[2], keyMap),
                   Tail(values), keyMap)

\* loadConfig builds envValues: for each entry of ENV_MAP whose variable is
\* set, the configuration key with the variable's value
RECURSIVE envEntries(_, _)
envEntries(map, env) ==
  IF map = <<>> THEN <<>>
  ELSE (IF MapHas(env, Head(map)[1])
        THEN << <<Head(map)[2], MapGet(env, Head(map)[1])>> >> ELSE <<>>)
       \o envEntries(Tail(map), env)

\* a variant of loadConfig that applies the environment after the command line
loadConfig_envLast(file, env, cli) ==
  LET c1 == applyValues(DEFAULTS, file, KEY_MAP)
      c2 == applyValues(c1, cli, KEY_MAP)
  IN applyValues(c2, envEntries(ENV_MAP, env), NoKeyMap)
\* loadConfig: defaults, then the file, then the environment, then the
\* command line
loadConfig(file, env, cli) ==
  LET c1 == applyValues(DEFAULTS, file, KEY_MAP)
      c2 == applyValues(c1, envEntries(ENV_MAP, env), NoKeyMap)
  IN applyValues(c2, cli, KEY_MAP)

LoadConfig ==
  /\ config = NoConfig
  /\ config' = loadConfig(fileValues, envValues, cliArgs)
  /\ UNCHANGED <<fileValues, envValues, cliArgs>>
  /\ UNCHANGED <<handlerVars, poolVars, rateVars, resolverVars, framerVars, codecVars>>

\* What a source may say about each option: nothing, or one of these raw
\* strings.  "0" and "x" are no port; "loud" is no log level.
Absent == <<"absent">>
RawPorts == { <<"7">>, <<"8", "0">>, <<"0">>, <<"x">> }
RawLevels == { <<"d", "e", "b", "u", "g">>, <<"w", "a", "r", "n">>, <<"l", "o", "u", "d">> }
RawSeparators == { <<"-">> }
Present(entries) == SelectSeq(entries, LAMBDA e : e[2] # Absent)
SourceMaps(portKey, levelKey, separatorKey) ==
  { Present(<< <<portKey, p>>, <<levelKey, l>>, <<separatorKey, s>> >>) :
      p \in RawPorts \cup {Absent}, l \in RawLevels \cup {Absent},
      s \in RawSeparators \cup {Absent} }

ConfigInit ==
  /\ contextVariables = SubSeq(VarNames, 1, 1)
  /\ ConnInit
  /\ PoolUnused
  /\ RateUnused
  /\ ResolverUnused
  /\ rawStream = <<>>
  /\ rawBuffer = <<>>
  /\ framed = <<>>
  /\ PipeUnused
  /\ wireFrame = NoFrame
  /\ rebuilt = NoFrame
  /\ reparsed = <<>>
  /\ fileValues \in SourceMaps("port", "log_level", "tenant_separator")
  /\ envValues \in SourceMaps("PGVPD_PORT", "PGVPD_LOG_LEVEL", "PGVPD_TENANT_SEPARATOR")
  /\ cliArgs \in SourceMaps("port", "log-level", "separator")
  /\ config = NoConfig

ConfigNext == LoadConfig
ConfigSpec == ConfigInit /\ [][ConfigNext]_vars

\* The key under which each source names an option, what a source offers
\* for an option, whether a raw string is a valid value of the option and the
\* value it stands for.
Options == {"listenPort", "logLevel", "tenantSeparator"}
FileKey(o) ==
  CASE o = "listenPort" -> "port" [] o = "logLevel" -> "log_level" [] OTHER -> "tenant_separator"
EnvKey(o) ==
  CASE o = "listenPort" -> "PGVPD_PORT" [] o = "logLevel" -> "PGVPD_LOG_LEVEL"
    [] OTHER -> "PGVPD_TENANT_SEPARATOR"
CliKey(o) ==
  CASE o = "listenPort" -> "port" [] o = "logLevel" -> "log-level" [] OTHER -> "separator"
Offered(source, key) == IF MapHas(source, key) THEN MapGet(source, key) ELSE Absent
ValidValue(o, raw) ==
  /\ raw # Absent
  /\ o = "listenPort" => (~parseInt(raw).isNaN /\ parseInt(raw).num \in 1..65535)
  /\ o = "logLevel" => raw \in LogLevels
ValueOf(o, raw) == IF o = "listenPort" THEN parseInt(raw).num ELSE raw
Effective(o) ==
  LET fromCli == Offered(cliArgs, CliKey(o))
      fromEnv == Offered(envValues, EnvKey(o))
      fromFile == Offered(fileValues, FileKey(o))
  IN
  IF ValidValue(o, fromCli) THEN ValueOf(o, fromCli)
  ELSE IF ValidValue(o, fromEnv) THEN ValueOf(o, fromEnv)
  ELSE IF ValidValue(o, fromFile) THEN ValueOf(o, fromFile)
  ELSE DEFAULTS[o]

\* C30: the configuration loadConfig returns holds, for every option, the
\* value of the highest-priority source that supplies a valid one, in the
\* order command line, environment, file, and the default when no source
\* does.
C30_Layering == config # NoConfig => \A o \in Options : config[o] = Effective(o)

\* loaded: the command line names a port that is none, the environment and
\* the file name different ports, and the environment's is in force; only the
\* file names a log level; nobody names a separator
C30_Witness ==
  /\ config # NoConfig
  /\ Offered(cliArgs, "port") = <<"x">>
  /\ Offered(envValues, "PGVPD_PORT") = <<"8", "0">>
  /\ Offered(fileValues, "port") = <<"7">>
  /\ config.listenPort = 80
  /\ Offered(fileValues, "log_level") = <<"w", "a", "r", "n">>
  /\ ~MapHas(envValues, "PGVPD_LOG_LEVEL") /\ ~MapHas(cliArgs, "log-level")
  /\ config.logLevel = <<"w", "a", "r", "n">>
  /\ config.tenantSeparator = <<".">>


\* ───────────────────────── client data during the handshake ──────────────
\* the client-originated messages among what was written upstream
ByClient(item) == item.kind # "startup" /\ item.by = "client"
ClientItems(items) == SelectSeq(items, ByClient)
ClientQueries(items) == {i \in 1..Len(items) : items[i].kind = "Q" /\ items[i].by = "client"}

\* a step taken after AuthenticationOk and before the injection is
\* confirmed writes nothing of the client's upstream
HeldBackStep ==
  (TenantConnection /\ state \in {"POST_AUTH", "INJECTING"} /\ state' # "TRANSPARENT")
    => ClientItems(toUpstream') = ClientItems(toUpstream)

\* C31: on a tenant connection a step taken in POST_AUTH or INJECTING that
\* does not confirm the injection writes no client-originated message
\* upstream, and no client Query stands before the injection query in what
\* was written upstream.
C31_ClientHeldBack ==
  /\ [][HeldBackStep]_vars
  /\ [](TenantConnection =>
          \A i \in InjectionsSent : \A j \in ClientQueries(toUpstream) : i < j)


\* ───────────────────────── the client's messages on their way up ─────────
\* what a data event took off the client's wire, and the client's messages
\* the handler has passed on or still holds, in order
TakenFromClient ==
  IF Len(c2p') < Len(c2p) THEN SubSeq(c2p, 1, Len(c2p) - Len(c2p')) ELSE <<>>
PassedOrHeld == ClientItems(toUpstream \o clientFramer)
NothingLostStep ==
  state' # "CLOSED" =>
    ClientItems(toUpstream' \o clientFramer') = PassedOrHeld \o ClientItems(TakenFromClient)

\* C32: every step that leaves the connection open adds the messages it
\* took off the client's wire, once and in the order sent, behind the
\* client's messages already written upstream or held for it, and changes
\* nothing else about them, whatever state the handler is in.
C32_ClientBytesInOrder == [][NothingLostStep]_vars


\* ───────────────────────── closing ───────────────────────────────────────
\* a close or error event of either socket, with an upstream in existence
CloseEvent == (ClientClose \/ UpstreamClose) /\ upstream = "socket"
BothDestroyed ==
  state = "CLOSED" /\ client = "destroyed" /\ upSock = "destroyed" /\ upstream = "null"

\* C33: a close or error event of the client or the upstream socket that
\* finds an upstream in existence leaves the handler CLOSED with both
\* sockets destroyed and no upstream; and on a CLOSED handler cleanup and
\* handleError change nothing.
C33_CloseDestroysBoth ==
  /\ [][CloseEvent => BothDestroyed']_vars
  /\ [](state = "CLOSED" => (cleanup(Conn) = Conn /\ handleError(Conn) = Conn))

\* a tenant session that had reached the pipe, with the injection confirmed
\* and no ErrorResponse ever sent to the client, ended by a close event
C33_Witness ==
  /\ BothDestroyed
  /\ TenantConnection /\ InjectionConfirmed
  /\ HasType(toClient, "Z") /\ ~HasType(toClient, "E")


\* ───────────────────────── upstream connections opened ───────────────────
\* C34: a connection has called net.createConnection at most once; while it
\* has not, there is no upstream socket and nothing was written upstream; a
\* handler that goes from WAIT_STARTUP to CLOSED has opened none, and a
\* CLOSED handler opens none.
C34_AtMostOneUpstream ==
  /\ [](/\ opens <= 1
        /\ opens = 0 => (upSock = "none" /\ upstream = "null" /\ toUpstream = <<>>)
        /\ state = "WAIT_STARTUP" => opens = 0)
  /\ [][(state = "WAIT_STARTUP" /\ state' = "CLOSED") => opens' = 0]_vars
  /\ [][state = "CLOSED" => opens' = opens]_vars

\* ended in WAIT_STARTUP without an upstream: an SSLRequest was denied and
\* the StartupMessage that followed was rejected
C34_Witness ==
  /\ state = "CLOSED" /\ opens = 0 /\ upSock = "none"
  /\ Len(toClient) = 2 /\ toClient[1] = SSL_DENY /\ toClient[2].t = "E"


\* ───────────────────────── what the client sees of the injection ─────────
\* the frames the server emitted in reply to the injection query, among
\* those written to the client
InjectionReplies(frames) == {i \in 1..Len(frames) : frames[i].re = "injection"}

\* C35: of the server's frames in reply to the injection query the client is
\* written ParameterStatus frames and a failure's ErrorResponse only, never
\* a CommandComplete or a ReadyForQuery.
C35_InjectionInvisible ==
  \A i \in InjectionReplies(toClient) : toClient[i].t \in {"S", "E"}


\* ───────────────────────── the backend framer, byte by byte ──────────────
\* Buffer.subarray(start, end): a negative index counts from the end, both
\* are clamped to the buffer, and an end before the start gives no bytes
clampIndex(buf, i) ==
  IF i < 0 THEN (IF Len(buf) + i < 0 THEN 0 ELSE Len(buf) + i)
  ELSE IF i > Len(buf) THEN Len(buf) ELSE i
subarray(buf, start, end) == SubSeq(buf, clampIndex(buf, start) + 1, clampIndex(buf, end))

\* MessageFramer.nextBackendMessage: whether it returns null, the message
\* it returns otherwise, and the buffer it leaves
NoMessage == [type |-> 0, totalLength |-> 0, raw |-> <<>>]
nextBackendMessage(buf) ==
  IF Len(buf) < 5 THEN [null |-> TRUE, msg |-> NoMessage, buffer |-> buf]
  ELSE LET type == buf[1]
           length == readInt32BE(buf, 1)
           totalLength == 1 + length
       IN
       IF Len(buf) < totalLength THEN [null |-> TRUE, msg |-> NoMessage, buffer |-> buf]
       ELSE [null |-> FALSE,
             msg |-> [type |-> type, totalLength |-> totalLength,
                             raw |-> subarray(buf, 0, totalLength)],
             buffer |-> subarray(buf, totalLength, Len(buf))]

\* BackendMsg.CommandComplete, 'C'
CommandComplete == 67
\* What a server, or whoever answers on the upstream port, may send: a
\* CommandComplete type byte, four bytes declaring a length, some payload
\* bytes, and a well-formed empty CommandComplete frame behind them.
BackendLengths == {-3, -1, 0, 3, 4, 5, 6}
PayloadSizes == 0..2
ServerStreams ==
  { <<CommandComplete>> \o writeInt32BE(l) \o [j \in 1..p |-> 0]
      \o <<CommandComplete>> \o writeInt32BE(4) :
    l \in BackendLengths, p \in PayloadSizes }

\* upstream.on("data") with the next n bytes, in a state whose handler runs a
\* frame loop: the handler pushes the bytes.  The event is delivered when the
\* loop of the event before it has ended.
ServerBytes(n) ==
  /\ nextBackendMessage(rawBuffer).null
  /\ n \in 1..Len(rawStream)
  /\ rawStream' = SubSeq(rawStream, n + 1, Len(rawStream))
  /\ rawBuffer' = rawBuffer \o SubSeq(rawStream, 1, n)
  /\ UNCHANGED <<framed, pipeVars>>
  /\ UNCHANGED <<handlerVars, poolVars, rateVars, resolverVars, codecVars, configVars>>

\* one iteration of `while ((msg = this.serverFramer.nextBackendMessage())
\* !== null)` on a message the loop body neither returns on nor throws on
LoopIteration ==
  /\ Len(framed) < MaxFrames
  /\ LET r == nextBackendMessage(rawBuffer) IN
     /\ ~r.null
     /\ rawBuffer' = r.buffer
     /\ framed' = Append(framed, [type |-> r.msg.type, totalLength |-> r.msg.totalLength,
                                  removed |-> Len(rawBuffer) - Len(r.buffer),
                                  front |-> /\ r.msg.totalLength \in 0..Len(rawBuffer)
                                            /\ r.msg.raw \o r.buffer = rawBuffer])
  /\ UNCHANGED <<rawStream, pipeVars>>
  /\ UNCHANGED <<handlerVars, poolVars, rateVars, resolverVars, codecVars, configVars>>

BackendInit ==
  /\ contextVariables = SubSeq(VarNames, 1, 1)
  /\ ConnInit
  /\ PoolUnused
  /\ RateUnused
  /\ ResolverUnused
  /\ rawStream \in ServerStreams
  /\ rawBuffer = <<>>
  /\ framed = <<>>
  /\ PipeUnused
  /\ wireFrame = NoFrame
  /\ rebuilt = NoFrame
  /\ reparsed = <<>>
  /\ fileValues = <<>>
  /\ envValues = <<>>
  /\ cliArgs = <<>>
  /\ config = NoConfig

BackendNext == (\E n \in 1..Len(rawStream) : ServerBytes(n)) \/ LoopIteration
BackendSpec == BackendInit /\ [][BackendNext]_vars

\* C36: every frame nextBackendMessage returns has a total length of
\* 1 + length >= 5 bytes and the call removed exactly those bytes from the
\* front of the buffer, so that each iteration of a frame loop shortens the
\* buffer by five bytes or more; and a call that returns null leaves the
\* buffer as it was.
C36_FramerProgress ==
  /\ \A i \in 1..Len(framed) :
       /\ framed[i].totalLength >= 5
       /\ framed[i].removed = framed[i].totalLength
       /\ framed[i].front
  /\ nextBackendMessage(rawBuffer).null => nextBackendMessage(rawBuffer).buffer = rawBuffer


\* ───────────────────────── the order of the handler's states ─────────────
\* the states in the order of their declaration
StateOrder ==
  <<"WAIT_STARTUP", "CONNECTING", "AUTHENTICATING", "POST_AUTH", "INJECTING",
    "TRANSPARENT", "CLOSED">>
Ordinal(s) == CHOOSE i \in 1..Len(StateOrder) : StateOrder[i] = s

\* a step never takes the state to an earlier one; WAIT_STARTUP is left for
\* CONNECTING or CLOSED, CONNECTING for AUTHENTICATING (TRANSPARENT on a
\* bypass connection) or CLOSED, and a tenant connection enters TRANSPARENT
\* from INJECTING only
ForwardStep ==
  /\ Ordinal(state') >= Ordinal(state)
  /\ (state = "WAIT_STARTUP" /\ state' # state) => state' \in {"CONNECTING", "CLOSED"}
  /\ (state = "CONNECTING" /\ state' # state)
       => state' \in {IF isBypass THEN "TRANSPARENT" ELSE "AUTHENTICATING", "CLOSED"}
  /\ (TenantConnection /\ state # "TRANSPARENT" /\ state' = "TRANSPARENT") => state = "INJECTING"
  /\ isBypass => state' \notin {"AUTHENTICATING", "POST_AUTH", "INJECTING"}

\* a step of a CLOSED handler leaves its state and writes to neither socket
AbsorbedStep ==
  state = "CLOSED" => (state' = "CLOSED" /\ toClient' = toClient /\ toUpstream' = toUpstream)

\* a CLOSED handler has no upstream socket that could still connect or
\* deliver data, and whatever the client still delivers changes nothing
NoLateEvent ==
  state = "CLOSED" =>
    /\ upSock \in {"none", "destroyed"}
    /\ \A k \in ChunkSizes(c2p) : onClientData(Conn, SubSeq(c2p, 1, k)) = Conn

\* C37: the handler state only moves forward through WAIT_STARTUP,
\* CONNECTING, AUTHENTICATING, POST_AUTH, INJECTING, TRANSPARENT (a bypass
\* connection from CONNECTING directly to TRANSPARENT), and CLOSED is
\* absorbing: no socket event on a CLOSED handler changes the state or
\* writes to either socket.
C37_ForwardOnly ==
  /\ [][ForwardStep]_vars
  /\ [][AbsorbedStep]_vars
  /\ []NoLateEvent
\* a rejected client (ErrorResponse sent, its side still readable) whose
\* later messages were all delivered to the CLOSED handler and dropped
C37_Witness ==
  /\ state = "CLOSED"
  /\ client = "ended"
  /\ HasType(toClient, "E")
  /\ sentMsgs = MaxClientMsgs
  /\ c2p = <<>>
  /\ clientFramer = <<>>
  /\ toUpstream = <<>>


\* ───────────────────────── pool mode: the message-aware pipe ─────────────
\* One pooled session, from admission to checkin. In PIPE the client-to-
\* upstream direction is a framing loop over the client's bytes; the
\* upstream-to-client direction is a raw byte copy and carries no decision.
PipeTask == 1
Query == 81
Terminate == 88

\* a frontend frame: need more data, malformed (length below 4), or the frame
\* with the bytes behind it
nextFrontendMessage(buf) ==
  IF Len(buf) < 5 THEN [kind |-> "more", type |-> 0, raw |-> <<>>, rest |-> buf]
  ELSE
    LET length == readInt32BE(buf, 1) IN
    IF length < 4 THEN [kind |-> "malformed", type |-> buf[1], raw |-> <<>>, rest |-> buf]
    ELSE IF Len(buf) < 1 + length THEN [kind |-> "more", type |-> 0, raw |-> <<>>, rest |-> buf]
    ELSE [kind |-> "frame", type |-> buf[1], raw |-> SubSeq(buf, 1, 1 + length),
          rest |-> SubSeq(buf, 2 + length, Len(buf))]

\* a pipe that takes no message for Terminate
isTerminate_never(msg) == FALSE
\* the message the pipe intercepts
isTerminate(msg) == msg.type = Terminate

\* the framing loop: forward each complete message, stop at Terminate or at
\* a malformed length
RECURSIVE pipeLoop(_)
pipeLoop(p) ==
  LET msg == nextFrontendMessage(p.buffer) IN
  CASE msg.kind = "more" -> p
    [] msg.kind = "malformed" -> [p EXCEPT !.end = "malformed"]
    [] msg.kind = "frame" /\ isTerminate(msg) -> [p EXCEPT !.buffer = msg.rest, !.end = "terminate"]
    [] OTHER -> pipeLoop([p EXCEPT !.buffer = msg.rest, !.up = @ \o msg.raw])

\* the client's messages: a Query whose text is the letter X, an empty Query,
\* Terminate, and a header with a length below 4
FrontendBytes(type, payload) == <<type>> \o writeInt32BE(4 + Len(payload)) \o payload
ClientMessages ==
  { FrontendBytes(Query, <<Terminate, 0>>), FrontendBytes(Query, <<0>>),
    FrontendBytes(Terminate, <<>>), <<Query>> \o writeInt32BE(3) }
RECURSIVE Streams(_)
Streams(n) ==
  IF n = 0 THEN {<<>>}
  ELSE LET shorter == Streams(n - 1) IN
       shorter \cup {s \o m : s \in shorter, m \in ClientMessages}
ClientStreams == Streams(MaxFrames)

\* PIPE: a chunk of client bytes arrives and the framing loop runs. Terminate
\* ends the client side and starts CLEANUP with ROLLBACK; a malformed length
\* aborts the session and the connection is discarded.
PipeClientData(n) ==
  /\ pc[PipeTask] = "PIPE"
  /\ n \in 1..Len(rawStream)
  /\ LET p == pipeLoop([buffer |-> rawBuffer \o SubSeq(rawStream, 1, n), up |-> pipeUp,
                        end |-> "none"])
     IN
     /\ rawStream' = SubSeq(rawStream, n + 1, Len(rawStream))
     /\ rawBuffer' = p.buffer
     /\ pipeUp' = p.up
     /\ pipeEnd' = p.end
     /\ pc' = [pc EXCEPT ![PipeTask] = CASE p.end = "terminate" -> "ROLLBACK"
                                         [] p.end = "malformed" -> "RELEASE"
                                         [] OTHER -> @]
     /\ upConn' = IF p.end = "malformed" THEN [upConn EXCEPT ![held[PipeTask]].st = "closed"]
                  ELSE upConn
     /\ live' = IF p.end = "malformed" THEN live - 1 ELSE live
     /\ held' = IF p.end = "malformed" THEN [held EXCEPT ![PipeTask] = 0] ELSE held
  /\ UNCHANGED <<tenantMax, poolSize, active, idle, reaped, now, tenantOf, result, releases>>
  /\ UNCHANGED <<handlerVars, rateVars, resolverVars, codecVars, configVars, framed, pipeSent>>

\* PIPE: the client closes its socket after all it wrote was read
PipeClientEof ==
  /\ pc[PipeTask] = "PIPE"
  /\ rawStream = <<>>
  /\ pipeEnd' = "eof"
  /\ pc' = [pc EXCEPT ![PipeTask] = "ROLLBACK"]
  /\ UNCHANGED <<tenantMax, poolSize, active, live, idle, reaped, upConn, now, tenantOf, held, result, releases>>
  /\ UNCHANGED <<handlerVars, rateVars, resolverVars, codecVars, configVars, rawStream, rawBuffer,
                 framed, pipeSent, pipeUp>>

PipeInit ==
  /\ contextVariables = SubSeq(VarNames, 1, 1)
  /\ ConnInit
  /\ tenantMax = 1
  /\ poolSize = 1
  /\ active = [tn \in Tenants |-> 0]
  /\ live = 0
  /\ idle = <<>>
  /\ reaped = {}
  /\ upConn = [k \in Tasks |-> [st |-> "absent", ctx |-> NoCtx]]
  /\ now = 0
  /\ pc = [t \in Tasks |-> IF t = PipeTask THEN "TENANT_CONNECT" ELSE "done"]
  /\ tenantOf = [t \in Tasks |-> "t1"]
  /\ held = [t \in Tasks |-> 0]
  /\ result = [t \in Tasks |-> "none"]
  /\ releases = [t \in Tasks |-> 0]
  /\ RateUnused
  /\ ResolverUnused
  /\ rawStream \in ClientStreams
  /\ rawBuffer = <<>>
  /\ framed = <<>>
  /\ pipeSent = rawStream
  /\ pipeUp = <<>>
  /\ pipeEnd = "none"
  /\ wireFrame = NoFrame
  /\ rebuilt = NoFrame
  /\ reparsed = <<>>
  /\ fileValues = <<>>
  /\ envValues = <<>>
  /\ cliArgs = <<>>
  /\ config = NoConfig

PipeNext ==
  \/ Admit(PipeTask)
  \/ Checkout(PipeTask)
  \/ OpenDone(PipeTask)
  \/ Inject(PipeTask)
  \/ \E n \in 1..Len(rawStream) : PipeClientData(n)
  \/ PipeClientEof
  \/ SessionFails(PipeTask)
  \/ RollbackAck(PipeTask)
  \/ DiscardAck(PipeTask)
  \/ CheckinFails(PipeTask)
  \/ Release(PipeTask)

PipeSpec == PipeInit /\ [][PipeNext]_vars

\* the types of the complete frames a byte sequence holds, in order
RECURSIVE FrameTypes(_)
FrameTypes(bytes) ==
  LET msg == nextFrontendMessage(bytes) IN
  IF msg.kind = "frame" THEN <<msg.type>> \o FrameTypes(msg.rest) ELSE <<>>
\* the bytes of the frames that precede the first Terminate, the first
\* malformed header or the first incomplete frame
RECURSIVE BeforeTerminate(_)
BeforeTerminate(bytes) ==
  LET msg == nextFrontendMessage(bytes) IN
  IF msg.kind = "frame" /\ msg.type # Terminate THEN msg.raw \o BeforeTerminate(msg.rest) ELSE <<>>
Delivered == SubSeq(pipeSent, 1, Len(pipeSent) - Len(rawStream))

\* no Terminate frame among the bytes written upstream, which are whole frames
NoTerminateUpstream ==
  /\ \A i \in 1..Len(FrameTypes(pipeUp)) : FrameTypes(pipeUp)[i] # Terminate
  /\ BeforeTerminate(pipeUp) = pipeUp
\* while the pipe runs, every complete message delivered so far has been
\* written upstream, in the client's order, and only an incomplete one is held
OthersForwarded ==
  /\ pipeUp = BeforeTerminate(Delivered)
  /\ pc[PipeTask] = "PIPE" =>
       (pipeUp \o rawBuffer = Delivered /\ nextFrontendMessage(rawBuffer).kind = "more")
\* the step that takes Terminate starts CLEANUP and keeps the upstream
\* connection, open, in the task's hands
TerminateStep ==
  (pipeEnd = "none" /\ pipeEnd' = "terminate") =>
    /\ pc'[PipeTask] = "ROLLBACK"
    /\ held' = held
    /\ upConn'[held[PipeTask]].st = "open"
\* once the client side has ended nothing more is read or written upstream
ClientSideEnded ==
  pipeEnd # "none" => (pipeUp' = pipeUp /\ rawStream' = rawStream /\ pipeEnd' = pipeEnd)

\* C38: in pool mode a client Terminate ('X') is never forwarded upstream: it
\* ends the client side of the pipe and starts the CLEANUP/checkin sequence
\* with the upstream connection still open, while all other client messages
\* are forwarded in order.
C38_TerminateIntercepted ==
  /\ [](NoTerminateUpstream /\ OthersForwarded)
  /\ [][TerminateStep]_vars
  /\ [][ClientSideEnded]_vars
\* a Query whose text holds the byte 'X' went upstream, Terminate was taken,
\* CLEANUP has begun on the open connection, and what the client sent behind
\* Terminate stays in the buffer
C38_Witness ==
  /\ pipeEnd = "terminate"
  /\ pc[PipeTask] = "ROLLBACK"
  /\ upConn[held[PipeTask]].st = "open"
  /\ \E i \in 1..Len(pipeUp) : pipeUp[i] = Terminate
  /\ rawBuffer # <<>>

====
